---- MODULE Spec2Model ----
(***************************************************************************)
(* Verification model of the polytera trade-watcher: the Deduplicator, the *)
(* event store, the two watchers and the WatcherOrchestrator.              *)
(*                                                                         *)
(* Three specifications share the variables below:                         *)
(*   Spec       the pipeline: fills observed by the two watchers are       *)
(*              mapped to detections and routed through handleTradeEvent;  *)
(*   SpecDedup  the Deduplicator alone, driven with arbitrary detections   *)
(*              (as its unit tests drive it);                              *)
(*   SpecWatch  the watcher lifecycles (start, backfill, subscribe,        *)
(*              reconnect, poll) under WatcherOrchestrator.start().        *)
(***************************************************************************)
EXTENDS Integers, Sequences, FiniteSets, TLC

VARIABLES
    \* ---- durable state (survives a restart) -----------------------------
    store,               \* raw_events table: a set of rows, id is the key
    \* ---- Deduplicator (part_003) ----------------------------------------
    lru,                 \* LRUCache.cache: ids, oldest first (Map order)
    lruSize,             \* LRUCache.maxSize (constructor argument)
    hits,                \* Deduplicator._hits
    misses,              \* Deduplicator._misses
    \* ---- WatcherOrchestrator (part_006) ---------------------------------
    totalEventsEmitted,  \* WatcherOrchestrator.totalEventsEmitted
    unified,             \* the orchestrator's 'trade' stream: id -> times emitted
    \* ---- history of the run (what the callers observed) -----------------
    lastCall,            \* the last Deduplicator.process call and its result
    prevCall,            \* the call before it
    firstResult,         \* id -> isNew of the first process call on that id
    laterNew,            \* ids for which a later process call returned isNew
    admittedEarlier,     \* ids admitted by an earlier Deduplicator instance
    admittedNow,         \* ids admitted by the current Deduplicator instance
    fillsPublished,      \* fill name -> times a detection of it was emitted
    \* ---- the chain and the process (SpecWatch) --------------------------
    chain,               \* chain[b]: what block b holds for the participant
    orchPc,              \* where main / WatcherOrchestrator.start() stands
    \* ---- OnChainWatcher (part_006) and BaseWatcher (part_005) -----------
    ocState,             \* BaseWatcher.state
    ocShuttingDown,      \* OnChainWatcher.isShuttingDown
    ocTask,              \* the async call in flight: start() or scheduleReconnect()
    unwatchFns,          \* OnChainWatcher.unwatchFns: handles it can unsubscribe
    subs,                \* subscriptions open at the RPC node
    wsGen,               \* WebSocket clients created so far
    ocEnriching,         \* detections inside enrichTimestamp (block lookup pending)
    ocErrorCount,        \* BaseWatcher.errorCount
    ocEventsDetected,    \* BaseWatcher.eventsDetected
    lastBlockSeen,       \* BaseWatcher.lastBlockSeen (0: null)
    \* ---- ClobWatcher (clob-watcher.ts) ----------------------------------
    clobState,           \* BaseWatcher.state
    clobShuttingDown,    \* ClobWatcher.isShuttingDown
    pollTimer,           \* ClobWatcher.pollTimer is armed
    clobTask,            \* the poll() in flight: "none", "startPoll", "timerPoll"
    lastSeenTimestamp,   \* ClobWatcher.lastSeenTimestamp
    clobErrorCount,      \* BaseWatcher.errorCount
    clobEventsDetected,  \* BaseWatcher.eventsDetected
    \* ---- history of the run (SpecWatch) ---------------------------------
    ocPublished,         \* blocks whose fill the on-chain watcher has emitted
    recordedAtStart,     \* getLatestBlockNumber() when start() read it (0: null)
    ocStartResult,       \* how onChainWatcher.start() ended: "none", "ok", "failed"
    clobStartResult,     \* how clobWatcher.start() ended
    startOutcome,        \* how orchestrator.start() ended: "none", "returned", "raised"
    \* ---- WatcherOrchestrator.stop() -------------------------------------
    ocStopResult,        \* how onChainWatcher.stop() ended: "none", "ok", "failed"
    clobStopResult,      \* how clobWatcher.stop() ended
    stopOutcome,         \* how orchestrator.stop() ended: "none", "returned", "raised"
    \* ---- notifications --------------------------------------------------
    errorTick,           \* flips when onError runs again for a dropped subscription
    orchErrorEvents,     \* 'error' events the orchestrator has re-emitted
    \* ---- one poll cycle of the ClobWatcher (SpecPoll) -------------------
    lastCycle,           \* the last cycle: mark before, page fetched, rows emitted
    \* ---- syntheticLogIndex on its own (SpecHash) ------------------------
    hashRow,             \* the trade-history row handed to syntheticLogIndex
    hashOut,             \* what it returned (0: not called yet)
    \* ---- MarketCache (market-cache.ts, SpecCache) -----------------------
    mcCache,             \* MarketCache.cache: entries in Map order, oldest first
    mcMaxSize,           \* MarketCache.maxSize
    mcTtl,               \* MarketCache.ttlMs
    mcNow,               \* Date.now()
    mcLast,              \* the last call on the cache and what it returned
    mcRecency,           \* the keys held, least recently accessed first
    \* ---- MarketResolver (market-resolver.ts, SpecResolver) --------------
    gammaCalls,          \* lookups sent to the Gamma API so far
    rsPending,           \* the token whose lookup is in flight ("": none)
    rsLast,              \* the last resolve(): its token, its answer, what it did
    \* ---- SignalNormalizer (signal-normalizer.ts, SpecNormalizer) --------
    nzPc,                \* where normalize() stands: "idle", "resolving", "fetching"
    nzCall,              \* the call in progress: what it decoded, resolved, fetched
    normalizedCount,     \* SignalNormalizer._normalized
    errorCount,          \* SignalNormalizer._errors
    nzEmitted,           \* 'normalized' notifications: how many, and the last
    nzReturned,          \* what the last normalize() returned
    \* ---- the enrichers on their own (SpecPhase, SpecPosition) -----------
    phaseCall,           \* the last computeMarketPhase call and its answer
    posCall,             \* the last fetchExpertPosition call and its answer
    \* ---- EventStore listings (event-store.ts, SpecListing) --------------
    rawEvents,           \* table raw_events: the columns the listing reads
    esListing,           \* the last getUnprocessedEvents call and its answer
    \* ---- withRetry (retry.ts, FairSpecRetry) ----------------------------
    rtPc,                \* "idle", "calling", "sleeping", "returned", "raised"
    rtOptions,           \* the options of the call: maxAttempts
    rtAttempt,           \* the loop variable attempt
    rtLastError,         \* lastError ("undefined" before the first failure)
    rtDelay,             \* the delay handed to the last sleep
    rtLog,               \* what has happened: "ok", "fail", "sleep", in order
    rtOutcome,           \* the value returned or the error raised
    \* ---- OnChainWatcher.backfillMissedBlocks on its own (FairSpecBackfill)
    bfPc,                \* "idle", "head", "maker", "taker", "returned", "raised"
    bfHead,              \* the chain head getBlockNumber answers with
    bfTask,              \* fromBlock, toBlock, the exchange and the cursor
    bfQueries,           \* the getContractEvents calls settled so far, in order
    \* ---- OnChainWatcher.processLog / enrichTimestamp (SpecEnrich) -------
    enClients,           \* httpClient ?? wsClient is not null
    enCalls,             \* the processLog calls that built a detection
    enPublished,         \* the emitTrade calls, in order
    enSkipped,           \* processLog calls that returned without a detection
    \* ---- calculateDelay on its own (SpecDelay) --------------------------
    delayCall,           \* the last calculateDelay call and its answer
    \* ---- a ClobWatcher started and stopped by its callers (SpecLifecycle)
    lcState,             \* BaseWatcher.state
    lcShuttingDown,      \* ClobWatcher.isShuttingDown
    lcPollTimer,         \* ClobWatcher.pollTimer: the handle it holds (0: null)
    lcTimers,            \* the timers armed and neither fired nor cleared
    lcPolls,             \* the poll() calls awaiting their fetch, with the caller
    lcIds,               \* timers and calls created so far
    lcLastSeen,          \* ClobWatcher.lastSeenTimestamp
    lcPublished,         \* 'trade' notifications emitted so far
    lcErrorCount,        \* BaseWatcher.errorCount
    lcStopped,           \* stop() has returned and start() was not called since
    \* ---- store failures (SpecStoreFailure) ------------------------------
    storeFailures,       \* ids on which a process call raised in the insert
    \* ---- a trade-history row through mapToRawEvent and decodeTrade ------
    rowCall              \* the row, and what decodeTrade made of its detection

dedupVars == <<store, lru, lruSize, hits, misses, totalEventsEmitted, unified,
               lastCall, prevCall, firstResult, laterNew, admittedEarlier, admittedNow,
               fillsPublished>>

\* what the callers of Deduplicator.process observed
callVars == <<lastCall, prevCall, firstResult, laterNew, admittedEarlier,
              admittedNow, fillsPublished>>

chainVars == <<chain>>

orchVars == <<orchPc, ocStartResult, clobStartResult, startOutcome>>

ocVars == <<ocState, ocShuttingDown, ocTask, unwatchFns, subs, wsGen,
            ocEnriching, ocErrorCount, ocEventsDetected, lastBlockSeen,
            ocPublished, recordedAtStart>>

clobVars == <<clobState, clobShuttingDown, pollTimer, clobTask,
              lastSeenTimestamp, clobErrorCount, clobEventsDetected>>

watchVars == <<chainVars, orchVars, ocVars, clobVars>>

stopVars == <<ocStopResult, clobStopResult, stopOutcome>>

noticeVars == <<errorTick, orchErrorEvents>>

pollVars == <<lastCycle>>

hashVars == <<hashRow, hashOut>>

cacheVars == <<mcCache, mcMaxSize, mcTtl, mcNow, mcLast, mcRecency>>

resolverVars == <<gammaCalls, rsPending, rsLast>>

\* the state of the Signal Normalizer side (resolver, enrichers, store reads)
normVars == <<nzPc, nzCall, normalizedCount, errorCount, nzEmitted, nzReturned>>

\* the enrichment after the resolver
fnVars == <<phaseCall, posCall>>

tableVars == <<rawEvents, esListing>>

retryVars == <<rtPc, rtOptions, rtAttempt, rtLastError, rtDelay, rtLog, rtOutcome>>

backfillVars == <<bfPc, bfHead, bfTask, bfQueries>>

\* the watchers taken one at a time
timestampVars == <<enClients, enCalls, enPublished, enSkipped>>

lifecycleVars == <<lcState, lcShuttingDown, lcPollTimer, lcTimers, lcPolls,
                   lcIds, lcLastSeen, lcPublished, lcErrorCount, lcStopped>>

restVars == <<backfillVars, timestampVars, delayCall, lifecycleVars,
              storeFailures, rowCall>>

enrichVars == <<normVars, fnVars, tableVars, retryVars, restVars>>

lateVars == <<resolverVars, enrichVars>>

moreVars == <<stopVars, noticeVars, pollVars, hashVars, cacheVars, lateVars>>

vars == <<dedupVars, watchVars, moreVars>>

-----------------------------------------------------------------------------
(* Bounds of the model.                                                    *)

\* largest LRU capacity tried (the constructor accepts any number)
MaxLruSize == 2
\* the counters (hits, misses, events emitted) are counted up to MaxCount,
\* which stands for "MaxCount or more"
MaxCount == 3

\* blocks the chain reaches
MaxBlock == 3

\* WebSocket clients after which the stream stays up
MaxGen == 2

-----------------------------------------------------------------------------
(* Strings.  A string whose characters are read one by one (the synthetic  *)
(* log index hashes its key by charCodeAt) is a sequence of one-character  *)
(* strings; the others are TLA+ strings.                                   *)

Min(a, b) == IF a < b THEN a ELSE b

DigitChar(d) ==
    CASE d = 0 -> "0" [] d = 1 -> "1" [] d = 2 -> "2" [] d = 3 -> "3"
      [] d = 4 -> "4" [] d = 5 -> "5" [] d = 6 -> "6" [] d = 7 -> "7"
      [] d = 8 -> "8" [] d = 9 -> "9"

\* String.prototype.charCodeAt for the characters that occur in a key
charCodeAt(c) ==
    CASE c = "0" -> 48 [] c = "1" -> 49 [] c = "2" -> 50 [] c = "3" -> 51
      [] c = "4" -> 52 [] c = "5" -> 53 [] c = "6" -> 54 [] c = "7" -> 55
      [] c = "8" -> 56 [] c = "9" -> 57 [] c = "-" -> 45 [] c = "." -> 46
      [] c = "x" -> 120 [] c = "a" -> 97 [] c = "b" -> 98 [] c = "c" -> 99
      [] c = "d" -> 100 [] c = "e" -> 101 [] c = "f" -> 102

\* decimal digits of a natural number, as the template literal prints it
RECURSIVE IntChars(_)
IntChars(n) ==
    IF n < 10 THEN <<DigitChar(n)>>
    ELSE IntChars(n \div 10) \o <<DigitChar(n % 10)>>

\* A JS number with a short decimal expansion: whole part and the digits
\* after the point (none for an integer, never ending in 0).  Its template
\* literal form is "whole" or "whole.frac".
NumberChars(x) ==
    IF x.frac = <<>> THEN IntChars(x.whole)
    ELSE IntChars(x.whole) \o <<".">> \o [i \in 1..Len(x.frac) |-> DigitChar(x.frac[i])]

\* Math.round(x * 1e6) for such a number
RECURSIVE Pow10(_)
Pow10(k) == IF k = 0 THEN 1 ELSE 10 * Pow10(k - 1)

RECURSIVE DigitsValue(_)
DigitsValue(ds) ==
    IF ds = <<>> THEN 0
    ELSE 10 * DigitsValue(SubSeq(ds, 1, Len(ds) - 1)) + ds[Len(ds)]

ScaledMicro(x) ==
    x.whole * 1000000
      + (IF Len(x.frac) <= 6
         THEN DigitsValue(x.frac) * Pow10(6 - Len(x.frac))
         ELSE DigitsValue(SubSeq(x.frac, 1, 6))
                + (IF x.frac[7] >= 5 THEN 1 ELSE 0))

-----------------------------------------------------------------------------
(* buildEventId (types/index.ts): `${txHash}-${logIndex}`.                 *)

buildEventId(txHash, logIndex) == txHash \o "-" \o ToString(logIndex)

-----------------------------------------------------------------------------
(* ClobWatcher.syntheticLogIndex (clob-watcher.ts).  The hash is a 32-bit  *)
(* integer (`| 0`); it is kept as two 16-bit halves <<hi, lo>> of its      *)
(* two's complement pattern so that no intermediate value leaves the       *)
(* range of the model checker's integers.                                  *)

Half == 65536

\* hash = ((hash << 5) - hash + char) | 0, i.e. 31 * hash + char modulo 2^32
HashStep(h, char) ==
    LET t == 31 * h[2] + char
    IN  <<(31 * h[1] + (t \div Half)) % Half, t % Half>>

RECURSIVE HashChars(_, _)
HashChars(h, key) ==
    IF key = <<>> THEN h
    ELSE HashStep(HashChars(h, SubSeq(key, 1, Len(key) - 1)),
                  charCodeAt(key[Len(key)]))

\* |v| for the int32 v with pattern h, again as halves (2^31 for -2^31)
AbsHalves(h) ==
    IF h[1] < 32768 THEN h
    ELSE <<65535 - h[1] + (IF h[2] = 0 THEN 1 ELSE 0), (Half - h[2]) % Half>>

\* (hi * 2^16 + lo) % m without overflow, for m < 2^23
ModHalves(h, m) == (((((h[1] * 256) % m) * 256) % m) + h[2]) % m

\* the key of a trade-history row
TradeKey(trade) ==
    trade.conditionId \o <<"-">> \o IntChars(trade.timestamp) \o <<"-">>
      \o NumberChars(trade.size) \o <<"-">> \o NumberChars(trade.price)

\* 100_000 + hash % 900_000 without Math.abs: JS % keeps the dividend's sign
syntheticLogIndex_noAbs(trade) ==
    LET h == HashChars(<<0, 0>>, TradeKey(trade))
    IN  IF h[1] < 32768 THEN 100000 + ModHalves(h, 900000)
        ELSE 100000 - ModHalves(AbsHalves(h), 900000)

\* Math.abs(hash % 900_000): JS % takes the sign of the dividend
syntheticLogIndex(trade) ==
    100000 + ModHalves(AbsHalves(HashChars(<<0, 0>>, TradeKey(trade))), 900000)

-----------------------------------------------------------------------------
(* The inputs: fills on the chain, the trade-history rows that report      *)
(* them, and the detections (RawTradeEvent) the watchers make of them.     *)

Sources == {"on-chain", "clob-api"}

\* Fills of the tracked participant.  A and B are two fills of different
\* transactions; the exchange's Data API reports each fill as one row.
Fills ==
    { [name |-> "A", txHash |-> "0xa1", logIndex |-> 0, blockNumber |-> 1,
       conditionId |-> <<"0", "x", "c", "1">>, timestamp |-> 1700000017,
       size |-> [whole |-> 10, frac |-> <<>>],
       price |-> [whole |-> 0, frac |-> <<6, 5>>]],
      [name |-> "B", txHash |-> "0xb2", logIndex |-> 3, blockNumber |-> 2,
       conditionId |-> <<"0", "x", "c", "1">>, timestamp |-> 1700000042,
       size |-> [whole |-> 2, frac |-> <<5>>],
       price |-> [whole |-> 0, frac |-> <<3>>]] }

FillNames == {f.name : f \in Fills}

\* the Data API row (ClobTrade) that reports fill f
RowOf(f) ==
    [transactionHash |-> f.txHash, conditionId |-> f.conditionId,
     timestamp |-> f.timestamp, size |-> f.size, price |-> f.price]

\* OnChainWatcher.processLog: the detection built from an OrderFilled log
processLog(f) ==
    [id |-> buildEventId(f.txHash, f.logIndex), txHash |-> f.txHash,
     logIndex |-> f.logIndex, blockNumber |-> f.blockNumber,
     source |-> "on-chain"]

\* ClobWatcher.mapToRawEvent: the detection built from a trade-history row
mapToRawEvent(trade) ==
    [id |-> buildEventId(trade.transactionHash, syntheticLogIndex(trade)),
     txHash |-> trade.transactionHash, logIndex |-> syntheticLogIndex(trade),
     blockNumber |-> 0, source |-> "clob-api"]

\* what each watcher makes of each fill (evaluated once)
OnChainDetections == [f \in Fills |-> processLog(f)]
ClobDetections == [f \in Fills |-> mapToRawEvent(RowOf(f))]

\* Detections handed to the Deduplicator directly (its unit tests build
\* them field by field: any transaction hash, log index and source tag).
RawEvent(txHash, logIndex, source) ==
    [id |-> buildEventId(txHash, logIndex), txHash |-> txHash,
     logIndex |-> logIndex, blockNumber |-> 1, source |-> source]

\* One fill reported under both source tags, a second log of the same
\* transaction, and a fill of another transaction.
Detections ==
    { RawEvent("0xa1", 0, "on-chain"), RawEvent("0xa1", 0, "clob-api"),
      RawEvent("0xa1", 5, "on-chain"), RawEvent("0xb2", 0, "clob-api") }

-----------------------------------------------------------------------------
(* LRUCache (part_003): a Map in insertion order, oldest key first.        *)

Range(q) == {q[i] : i \in 1..Len(q)}

Without(q, key) == SelectSeq(q, LAMBDA k : k # key)

\* LRUCache.has: the answer
LRU_has(cache, key) == key \in Range(cache)

\* LRUCache.has: the cache after the call (a hit moves the key to the end)
LRU_afterHas(cache, key) ==
    IF key \in Range(cache) THEN Append(Without(cache, key), key) ELSE cache

\* LRUCache.add
LRU_add(cache, maxSize, key) ==
    IF key \in Range(cache) THEN Append(Without(cache, key), key)
    ELSE IF Len(cache) >= maxSize
         THEN (IF cache = <<>> THEN <<key>> ELSE Append(Tail(cache), key))
         ELSE Append(cache, key)

-----------------------------------------------------------------------------
(* EventStore (event-store.ts) over the raw_events table (database.ts).    *)

\* serializeEvent and the column list of the INSERT
RowOfEvent(event) ==
    [id |-> event.id, txHash |-> event.txHash, logIndex |-> event.logIndex,
     blockNumber |-> event.blockNumber, source |-> event.source,
     processed |-> FALSE]

\* EventStore.exists
exists(st, eventId) == \E r \in st : r.id = eventId

insertEvent_noWrite(st, event) ==
    [isNew |-> ~exists(st, event.id), store |-> st]

insertEvent_orReplace(st, event) ==
    [isNew |-> TRUE,
     store |-> {r \in st : r.id # event.id} \cup {RowOfEvent(event)}]

\* EventStore.insertEvent: INSERT OR IGNORE on the primary key id;
\* isNew is `changes > 0`
insertEvent(st, event) ==
    IF exists(st, event.id)
    THEN [isNew |-> FALSE, store |-> st]
    ELSE [isNew |-> TRUE, store |-> st \cup {RowOfEvent(event)}]

-----------------------------------------------------------------------------
(* Deduplicator.process (part_003).  The result carries the fields of the  *)
(* Deduplicator and of the store after the call.                           *)

\* a Deduplicator that keys both layers by identity and source tag
process_keyedBySource(cache, maxSize, st, h, m, event) ==
    LET key == event.id \o "@" \o event.source
        ev  == [event EXCEPT !.id = key]
    IN  IF LRU_has(cache, key)
        THEN [isNew |-> FALSE, lru |-> LRU_afterHas(cache, key), store |-> st,
              hits |-> h + 1, misses |-> m]
        ELSE LET ins == insertEvent(st, ev)
             IN  [isNew |-> ins.isNew, lru |-> LRU_add(cache, maxSize, key),
                  store |-> ins.store,
                  hits |-> IF ins.isNew THEN h ELSE h + 1,
                  misses |-> IF ins.isNew THEN m + 1 ELSE m]

\* a Deduplicator that forgets to add a durable-layer hit to the LRU
process_noAddOnStoreHit(cache, maxSize, st, h, m, event) ==
    IF LRU_has(cache, event.id)
    THEN [isNew |-> FALSE, lru |-> LRU_afterHas(cache, event.id),
          store |-> st, hits |-> h + 1, misses |-> m]
    ELSE LET ins == insertEvent(st, event)
         IN  IF ~ins.isNew
             THEN [isNew |-> FALSE, lru |-> cache, store |-> ins.store,
                   hits |-> h + 1, misses |-> m]
             ELSE [isNew |-> TRUE, lru |-> LRU_add(cache, maxSize, event.id),
                   store |-> ins.store, hits |-> h, misses |-> m + 1]

\* a Deduplicator that adds the id to the LRU before the insert
process_insertRaises_addedFirst(cache, maxSize, st, h, m, event) ==
    [lru |-> LRU_add(cache, maxSize, event.id), store |-> st, hits |-> h,
     misses |-> m]

\* Deduplicator.process when insertStmt.run raises on the durable path: the
\* LRU lookup missed and changed nothing, the statement wrote no row, and
\* the error leaves process before the LRU and the counters are touched
process_insertRaises(cache, maxSize, st, h, m, event) ==
    [lru |-> cache, store |-> st, hits |-> h, misses |-> m]

process(cache, maxSize, st, h, m, event) ==
    IF LRU_has(cache, event.id)
    THEN \* fast path: LRU hit
         [isNew |-> FALSE, lru |-> LRU_afterHas(cache, event.id),
          store |-> st, hits |-> h + 1, misses |-> m]
    ELSE \* durable path
         LET ins == insertEvent(st, event)
         IN  IF ~ins.isNew
             THEN [isNew |-> FALSE, lru |-> LRU_add(cache, maxSize, event.id),
                   store |-> ins.store, hits |-> h + 1, misses |-> m]
             ELSE [isNew |-> TRUE, lru |-> LRU_add(cache, maxSize, event.id),
                   store |-> ins.store, hits |-> h, misses |-> m + 1]

-----------------------------------------------------------------------------
(* WatcherOrchestrator.handleTradeEvent (part_006), the listener wired to  *)
(* both watchers' 'trade' notifications by wireWatcher.                    *)

\* x counted once more in the tally b (2 stands for "twice or more")
CountUp(b, x) ==
    IF x \in DOMAIN b THEN [b EXCEPT ![x] = Min(@ + 1, 2)] ELSE b @@ (x :> 1)

NoCall ==
    [made |-> FALSE, id |-> "", txHash |-> "", logIndex |-> 0, source |-> "",
     isNew |-> FALSE, emitted |-> FALSE, lruHit |-> FALSE,
     wasStored |-> FALSE, inLru |-> FALSE]

ShouldEmit_always(result) == TRUE

\* `if (result.isNew)`: the gate in front of emit('trade', event)
ShouldEmit(result) == result.isNew

\* One 'trade' notification of a watcher, handled to completion: the call
\* of Deduplicator.process, the counter and the emit on the unified stream.
\* fillName names the fill the detection was made of ("" when unknown).
Pipeline ==
    [store |-> store, lru |-> lru, lruSize |-> lruSize, hits |-> hits,
     misses |-> misses, totalEventsEmitted |-> totalEventsEmitted,
     unified |-> unified, fillsPublished |-> fillsPublished,
     prevCall |-> prevCall, lastCall |-> lastCall,
     firstResult |-> firstResult, laterNew |-> laterNew,
     admittedNow |-> admittedNow]

\* the pipeline s after handleTradeEvent(event)
Handled(s, event, fillName) ==
    LET r    == process(s.lru, s.lruSize, s.store, s.hits, s.misses, event)
        emit == ShouldEmit(r)
    IN  [store |-> r.store,
         lru |-> r.lru,
         lruSize |-> s.lruSize,
         hits |-> Min(r.hits, MaxCount),
         misses |-> Min(r.misses, MaxCount),
         totalEventsEmitted |->
              IF emit THEN Min(s.totalEventsEmitted + 1, MaxCount)
              ELSE s.totalEventsEmitted,
         unified |-> IF emit THEN CountUp(s.unified, event.id) ELSE s.unified,
         fillsPublished |->
              IF emit /\ fillName # "" THEN CountUp(s.fillsPublished, fillName)
              ELSE s.fillsPublished,
         prevCall |-> s.lastCall,
         lastCall |->
              [made |-> TRUE, id |-> event.id, txHash |-> event.txHash,
               logIndex |-> event.logIndex, source |-> event.source,
               isNew |-> r.isNew, emitted |-> emit,
               lruHit |-> event.id \in Range(s.lru),
               wasStored |-> \E row \in s.store :
                                /\ row.txHash = event.txHash
                                /\ row.logIndex = event.logIndex,
               inLru |-> event.id \in Range(r.lru)],
         firstResult |->
              IF event.id \in DOMAIN s.firstResult THEN s.firstResult
              ELSE s.firstResult @@
                     (event.id :> [isNew |-> r.isNew,
                                   wasStored |-> exists(s.store, event.id)]),
         laterNew |->
              IF event.id \in DOMAIN s.firstResult /\ r.isNew
              THEN s.laterNew \cup {event.id} ELSE s.laterNew,
         admittedNow |->
              IF r.isNew THEN s.admittedNow \cup {event.id} ELSE s.admittedNow]

\* the pipeline after the events of one synchronous loop, in order
RECURSIVE HandledAll(_, _)
HandledAll(s, events) ==
    IF events = <<>> THEN s
    ELSE CHOOSE out \in {HandledAll(n, Tail(events)) :
                            n \in {Handled(s, Head(events), "")}} : TRUE

BecomePipeline(s) ==
    /\ store' = s.store
    /\ lru' = s.lru
    /\ hits' = s.hits
    /\ misses' = s.misses
    /\ totalEventsEmitted' = s.totalEventsEmitted
    /\ unified' = s.unified
    /\ fillsPublished' = s.fillsPublished
    /\ prevCall' = s.prevCall
    /\ lastCall' = s.lastCall
    /\ firstResult' = s.firstResult
    /\ laterNew' = s.laterNew
    /\ admittedNow' = s.admittedNow
    /\ UNCHANGED <<lruSize, admittedEarlier>>

handleTradeEvent(event, fillName) ==
    \E s \in {Handled(Pipeline, event, fillName)} : BecomePipeline(s)

\* The process ends and is started again (index.ts main): a new
\* Deduplicator and a new orchestrator over the same database file.
FreshProcess ==
    /\ lru' = <<>>
    /\ hits' = 0
    /\ misses' = 0
    /\ totalEventsEmitted' = 0
    /\ lruSize' \in 0..MaxLruSize
    /\ lastCall' = NoCall
    /\ prevCall' = NoCall
    /\ admittedEarlier' = admittedEarlier \cup admittedNow
    /\ admittedNow' = {}

-----------------------------------------------------------------------------
(* Spec: the pipeline.  Each fill may be observed by the on-chain watcher  *)
(* (a log, live or backfilled) and by the poll watcher (its row in a       *)
(* fetched page), any number of times and in any order.                    *)

NoTask == [kind |-> "none", pc |-> "", ex |-> "", from |-> 0, cursor |-> 0, to |-> 0]

NoCycle == [made |-> FALSE, mark |-> 0, trades |-> <<>>, emitted |-> <<>>]

NoRow == [transactionHash |-> "", conditionId |-> <<>>, timestamp |-> 0,
          size |-> [whole |-> 0, frac |-> <<>>],
          price |-> [whole |-> 0, frac |-> <<>>]]

NoCacheCall == [op |-> "none", key |-> "", value |-> "", tokens |-> <<>>,
                at |-> 0, result |-> ""]

\* the parts of the model a specification does not exercise
InitPollAside == lastCycle = NoCycle

InitHashAside == hashRow = NoRow /\ hashOut = 0

InitCacheAside ==
    /\ mcCache = <<>>
    /\ mcMaxSize = 0
    /\ mcTtl = 0
    /\ mcNow = 0
    /\ mcLast = NoCacheCall
    /\ mcRecency = <<>>

NoResolve == [tokenId |-> "", response |-> "", lookups |-> 0, result |-> "null",
              outcome |-> "", outcomeIndex |-> 0, at |-> 0, sizeBefore |-> 0]

InitResolverAside ==
    /\ gammaCalls = 0
    /\ rsPending = ""
    /\ rsLast = NoResolve

NoDecoded == [side |-> "", price |-> 0, quantity |-> 0,
              impliedProbability |-> 0, outcomeTokenId |-> ""]

NoPosition == [positionBefore |-> 0, positionAfter |-> 0]

\* no NormalizedTrade
NoTrade == [expertTradeId |-> 0, marketId |-> "", outcome |-> "", side |-> "",
            quantity |-> 0, price |-> 0, impliedProbability |-> 0,
            marketPhase |-> "", liquiditySnapshot |-> "",
            expertPositionBefore |-> 0, expertPositionAfter |-> 0]

\* a normalize() call: its decoded trade, the market it resolved, the two
\* fetches ("none": not started, "pending", or how they ended, in the order
\* they ended), and the counters as they stood when it began
NoNormalize ==
    [id |-> 0, decoded |-> NoDecoded, resolved |-> "null", outcome |-> "",
     outcomeIndex |-> 0, marketPhase |-> "",
     liquidity |-> "none", position |-> "none", positionValue |-> NoPosition,
     settled |-> <<>>, liquidityCalls |-> 0, positionCalls |-> 0,
     normalizedBefore |-> 0, errorsBefore |-> 0, emittedBefore |-> 0]

InitNormalizerAside ==
    /\ nzPc = "idle"
    /\ nzCall = NoNormalize
    /\ normalizedCount = 0
    /\ errorCount = 0
    /\ nzEmitted = [count |-> 0, last |-> NoTrade]
    /\ nzReturned = [kind |-> "none", value |-> NoTrade]

NoPhaseCall == [endDate |-> [kind |-> "null", d |-> 0, ms |-> 0],
                now |-> [d |-> 0, ms |-> 0], phase |-> ""]

NoPosCall == [response |-> [kind |-> "none", rows |-> <<>>], outcomeIndex |-> 0,
              side |-> "", quantity |-> 0, returned |-> FALSE,
              result |-> [positionBefore |-> 0, positionAfter |-> 0]]

InitFnAside == phaseCall = NoPhaseCall /\ posCall = NoPosCall

NoListing == [limit |-> 0, rows |-> <<>>, fresh |-> FALSE, marked |-> {}]

InitTableAside == rawEvents = {} /\ esListing = NoListing

InitRetryAside ==
    /\ rtPc = "idle"
    /\ rtOptions = [maxAttempts |-> 0]
    /\ rtAttempt = 0
    /\ rtLastError = "undefined"
    /\ rtDelay = 0
    /\ rtLog = <<>>
    /\ rtOutcome = ""

NoBackfill == [lastBlock |-> 0, from |-> 0, to |-> 0, ex |-> 0, cursor |-> 0]

InitBackfillAside ==
    /\ bfPc = "idle"
    /\ bfHead = 0
    /\ bfTask = NoBackfill
    /\ bfQueries = <<>>

InitTimestampAside ==
    /\ enClients = FALSE
    /\ enCalls = <<>>
    /\ enPublished = <<>>
    /\ enSkipped = 0

NoDelayCall ==
    [attempt |-> 0,
     opts |-> [baseDelayMs |-> 0, maxDelayMs |-> 0, jitter |-> 0],
     random |-> 0, returned |-> FALSE, delay |-> 0]

\* a ClobWatcher as constructed
InitLifecycleAside ==
    /\ lcState = "idle"
    /\ lcShuttingDown = FALSE
    /\ lcPollTimer = 0
    /\ lcTimers = {}
    /\ lcPolls = {}
    /\ lcIds = 0
    /\ lcLastSeen = 0
    /\ lcPublished = 0
    /\ lcErrorCount = 0
    /\ lcStopped = FALSE

NoRowCall ==
    [base |-> NoRow, side |-> "", asset |-> "", returned |-> FALSE,
     decoded |-> NoDecoded]

InitRestAside ==
    /\ InitBackfillAside
    /\ InitTimestampAside
    /\ delayCall = NoDelayCall
    /\ InitLifecycleAside
    /\ storeFailures = {}
    /\ rowCall = NoRowCall

InitLate ==
    /\ InitResolverAside
    /\ InitNormalizerAside
    /\ InitFnAside
    /\ InitTableAside
    /\ InitRetryAside
    /\ InitRestAside

InitAside == InitPollAside /\ InitHashAside /\ InitCacheAside /\ InitLate

\* the watchers and the orchestrator as constructed, before start()
InitWatchersCore ==
    /\ orchPc = "idle"
    /\ ocStartResult = "none"
    /\ clobStartResult = "none"
    /\ startOutcome = "none"
    /\ ocState = "idle"
    /\ ocShuttingDown = FALSE
    /\ ocTask = NoTask
    /\ unwatchFns = {}
    /\ subs = {}
    /\ wsGen = 0
    /\ ocEnriching = [b \in 1..MaxBlock |-> 0]
    /\ ocErrorCount = 0
    /\ ocEventsDetected = 0
    /\ lastBlockSeen = 0
    /\ ocPublished = {}
    /\ recordedAtStart = 0
    /\ clobState = "idle"
    /\ clobShuttingDown = FALSE
    /\ pollTimer = FALSE
    /\ clobTask = "none"
    /\ lastSeenTimestamp = 0
    /\ clobErrorCount = 0
    /\ clobEventsDetected = 0
    /\ ocStopResult = "none"
    /\ clobStopResult = "none"
    /\ stopOutcome = "none"
    /\ errorTick = FALSE
    /\ orchErrorEvents = 0

InitWatchers == InitWatchersCore /\ InitAside

InitVolatile(sizes) ==
    /\ lru = <<>>
    /\ lruSize \in sizes
    /\ hits = 0
    /\ misses = 0
    /\ totalEventsEmitted = 0
    /\ unified = <<>>
    /\ lastCall = NoCall
    /\ prevCall = NoCall
    /\ firstResult = <<>>
    /\ laterNew = {}
    /\ admittedNow = {}
    /\ fillsPublished = <<>>

Init ==
    /\ store = {}
    /\ admittedEarlier = {}
    /\ InitVolatile(0..MaxLruSize)
    /\ InitWatchers
    /\ chain = <<>>

\* the on-chain watcher emits the detection of fill f
OnChainDetect(f) ==
    /\ f \in Fills
    /\ handleTradeEvent(OnChainDetections[f], f.name)
    /\ UNCHANGED <<watchVars, moreVars>>

\* the poll watcher emits the detection of the row that reports fill f
ClobDetect(f) ==
    /\ f \in Fills
    /\ handleTradeEvent(ClobDetections[f], f.name)
    /\ UNCHANGED <<watchVars, moreVars>>

Restart ==
    /\ FreshProcess
    /\ UNCHANGED <<store, unified, firstResult, laterNew, fillsPublished>>
    /\ UNCHANGED <<watchVars, moreVars>>

\* The process is killed inside Deduplicator.process, after insertStmt.run
\* has committed the row and before handleTradeEvent reaches its emit; it
\* is then started again.
CrashAfterInsert(event) ==
    /\ ~LRU_has(lru, event.id)
    /\ insertEvent(store, event).isNew
    /\ store' = insertEvent(store, event).store
    /\ FreshProcess
    /\ UNCHANGED <<unified, firstResult, laterNew, fillsPublished>>
    /\ UNCHANGED <<watchVars, moreVars>>

\* the steps of the pipeline when the fills in F are those that occur
PipelineNext(F) ==
    \/ \E f \in F : OnChainDetect(f)
    \/ \E f \in F : ClobDetect(f)
    \/ Restart
    \/ \E f \in F : CrashAfterInsert(OnChainDetections[f])
    \/ \E f \in F : CrashAfterInsert(ClobDetections[f])

Next == PipelineNext(Fills)

Spec == Init /\ [][Next]_vars

\* The pipeline over a single fill, with fairness: every notification a
\* watcher has raised is handled (the event loop runs its listener); a
\* crash or a restart need not happen.
OneFill == {f \in Fills : f.name = "A"}

NextOneFill == PipelineNext(OneFill)

FairSpec ==
    /\ Init
    /\ [][NextOneFill]_vars
    /\ \A f \in OneFill : WF_vars(OnChainDetect(f))
    /\ \A f \in OneFill : WF_vars(ClobDetect(f))

-----------------------------------------------------------------------------
(* SpecDedup: the Deduplicator alone, over a database that an earlier run  *)
(* may have left, driven with arbitrary detections.                        *)

PriorStores == { {}, {RowOfEvent(RawEvent("0xa1", 0, "on-chain"))} }

InitDedup ==
    /\ store \in PriorStores
    /\ admittedEarlier = {r.id : r \in store}
    /\ InitVolatile(0..MaxLruSize)
    /\ InitWatchers
    /\ chain = <<>>

\* dedup.process(event), called as handleTradeEvent calls it
Process(event) ==
    /\ event \in Detections
    /\ handleTradeEvent(event, "")
    /\ UNCHANGED <<watchVars, moreVars>>

\* new Deduplicator(store, n): a restart, as the unit test simulates it
NewDeduplicator ==
    /\ FreshProcess
    /\ UNCHANGED <<store, unified, firstResult, laterNew, fillsPublished>>
    /\ UNCHANGED <<watchVars, moreVars>>

NextDedup ==
    \/ \E e \in Detections : Process(e)
    \/ NewDeduplicator

SpecDedup == InitDedup /\ [][NextDedup]_vars

-----------------------------------------------------------------------------
(* The process of index.ts: the chain, the two watchers and the             *)
(* orchestrator that starts them, from a store left by earlier runs.        *)

\* contracts.ts: 5_000n blocks per getContractEvents call, scaled to MaxBlock
MAX_BLOCK_RANGE == 2

\* Deduplicator's default lruSize, the one index.ts constructs it with
DefaultLruSize == 10000

Exchanges == <<"ctf", "neg-risk">>

\* what a block holds for the tracked participant: no fill, or one fill on
\* one of the two exchanges
BlockKinds == {"none", "ctf", "neg-risk"}

ChainFill(b) ==
    [name |-> "", txHash |-> "0xb" \o ToString(b), logIndex |-> b,
     blockNumber |-> b, conditionId |-> <<"0", "x", "c", "1">>,
     timestamp |-> 1700000000 + b,
     size |-> [whole |-> 10, frac |-> <<>>],
     price |-> [whole |-> 0, frac |-> <<6, 5>>]]

\* the detections of the fill of block b, as each watcher builds them
ChainOnChainEvent == [b \in 1..MaxBlock |-> processLog(ChainFill(b))]
ChainClobEvent == [b \in 1..MaxBlock |-> mapToRawEvent(RowOf(ChainFill(b)))]

Max(S) == CHOOSE x \in S : \A y \in S : y <= x

\* EventStore.getLatestBlockNumber (0 stands for null)
getLatestBlockNumber(st) ==
    LET onChain == {r \in st : r.source = "on-chain"}
    IN  IF onChain = {} THEN 0 ELSE Max({r.blockNumber : r \in onChain})

getHealth_anyRunning(watchers) ==
    LET runningCount ==
            Cardinality({i \in 1..Len(watchers) : watchers[i] = "running"})
    IN  IF runningCount > 0 THEN "healthy" ELSE "unhealthy"

\* WatcherOrchestrator.getHealth().status
getHealth(watchers) ==
    LET runningCount ==
            Cardinality({i \in 1..Len(watchers) : watchers[i] = "running"})
    IN  IF runningCount = Len(watchers) THEN "healthy"
        ELSE IF runningCount > 0 THEN "degraded"
        ELSE "unhealthy"

\* the process is alive: start() has not raised (index.ts exits on that) and
\* no shutdown signal has been handled
Up == orchPc \notin {"raised", "exited"}

\* index.ts at its start: the store as earlier runs left it, a Deduplicator
\* of the default size, both watchers and the orchestrator just constructed
InitProcess ==
    /\ store \in { {}, {RowOfEvent(ChainOnChainEvent[1])} }
    /\ admittedEarlier = {r.id : r \in store}
    /\ InitVolatile({DefaultLruSize})
    /\ InitWatchers

\* a block is mined; a fill in it reaches every subscription whose socket
\* is up, and onLogs hands it to processLog
GenDead(g) == \E h \in subs : h.gen = g /\ h.errored

\* processLog on the logs of blocks B: each enters enrichTimestamp
Enqueue(B) ==
    /\ ocEnriching' = [b \in 1..MaxBlock |->
                         IF b \in B THEN Min(ocEnriching[b] + 1, MaxCount)
                         ELSE ocEnriching[b]]
    /\ lastBlockSeen' = Max(B \cup {lastBlockSeen})

MineBlock(kind) ==
    /\ Up
    /\ kind \in BlockKinds
    /\ Len(chain) < MaxBlock
    /\ chain' = Append(chain, kind)
    /\ LET b == Len(chain) + 1
           live == kind # "none" /\
                   \E h \in subs : h.exchange = kind /\ ~GenDead(h.gen)
       IN  Enqueue(IF live THEN {b} ELSE {})
    /\ UNCHANGED <<dedupVars, orchVars, clobVars>>
    /\ UNCHANGED <<ocState, ocShuttingDown, ocTask, unwatchFns, subs, wsGen,
                   ocErrorCount, ocEventsDetected, ocPublished,
                   recordedAtStart>>
    /\ UNCHANGED moreVars

\* ClobWatcher.start() up to its first suspension, the fetch inside poll()
ClobStartCall ==
    /\ clobState' = "starting"
    /\ clobShuttingDown' = FALSE
    /\ clobTask' = "startPoll"
    /\ UNCHANGED <<pollTimer, lastSeenTimestamp, clobErrorCount,
                   clobEventsDetected>>

\* orchestrator.start() resumes after onChainWatcher.start() settled and
\* goes on to clobWatcher.start(), whatever the result
OrchAfterOnChain(result) ==
    /\ ocStartResult' = result
    /\ orchPc' = "awaitClob"
    /\ ClobStartCall
    /\ UNCHANGED <<clobStartResult, startOutcome>>

\* start() that sets 'running' with only the first exchange subscribed
Subscribe_oneExchange(kind, keep) ==
    LET g == wsGen + 1
        opened == {[gen |-> g, exchange |-> Exchanges[1]]}
    IN  /\ wsGen' = g
        /\ subs' = subs \cup {[gen |-> h.gen, exchange |-> h.exchange,
                               errored |-> FALSE] : h \in opened}
        /\ unwatchFns' = keep \cup opened
        /\ ocState' = "running"
        /\ ocTask' = NoTask
        /\ IF kind = "start" THEN OrchAfterOnChain("ok")
           ELSE UNCHANGED <<orchVars, clobVars>>

\* watchExchange for both exchanges on a fresh WebSocket client, then
\* setState('running'); keep is what unwatchFns held before the pushes
Subscribe(kind, keep) ==
    LET g == wsGen + 1
        opened == {[gen |-> g, exchange |-> Exchanges[i]] : i \in 1..2}
    IN  /\ wsGen' = g
        /\ subs' = subs \cup {[gen |-> h.gen, exchange |-> h.exchange,
                               errored |-> FALSE] : h \in opened}
        /\ unwatchFns' = keep \cup opened
        /\ ocState' = "running"
        /\ ocTask' = NoTask
        /\ IF kind = "start" THEN OrchAfterOnChain("ok")
           ELSE UNCHANGED <<orchVars, clobVars>>

\* backfillMissedBlocks up to the getBlockNumber call; without on-chain rows
\* in the store it returns at once and the caller goes on to subscribe
BeginBackfill(kind, keep) ==
    LET lastBlock == getLatestBlockNumber(store)
    IN  IF lastBlock = 0
        THEN Subscribe(kind, keep)
        ELSE /\ ocTask' = [kind |-> kind, pc |-> "head", ex |-> 1,
                           from |-> lastBlock + 1, cursor |-> 0, to |-> 0]
             /\ ocState' = IF kind = "start" THEN "starting" ELSE ocState
             /\ IF kind = "start"
                THEN /\ orchPc' = "awaitOnChain"
                     /\ UNCHANGED <<ocStartResult, clobStartResult,
                                    startOutcome, clobVars>>
                ELSE UNCHANGED <<orchVars, clobVars>>
             /\ UNCHANGED <<unwatchFns, subs, wsGen>>

\* index.ts calls orchestrator.start(), which calls onChainWatcher.start()
OrchStart ==
    /\ orchPc = "idle"
    /\ ocShuttingDown' = FALSE
    /\ recordedAtStart' = getLatestBlockNumber(store)
    /\ BeginBackfill("start", unwatchFns)
    /\ UNCHANGED <<dedupVars, chainVars, ocEnriching, ocErrorCount,
                   ocEventsDetected, lastBlockSeen, ocPublished>>
    /\ UNCHANGED moreVars

\* getBlockNumber answered: backfillMissedBlocks fixes the range it will
\* fetch, or finds nothing to fetch and the caller goes on to subscribe
OcHeadOk ==
    /\ Up
    /\ ocTask.pc = "head"
    /\ LET currentBlock == Len(chain)
       IN  IF ocTask.from > currentBlock
           THEN Subscribe(ocTask.kind,
                          IF ocTask.kind = "start" THEN unwatchFns ELSE {})
           ELSE /\ ocTask' = [ocTask EXCEPT !.pc = "chunk", !.ex = 1,
                                            !.cursor = ocTask.from,
                                            !.to = currentBlock]
                /\ UNCHANGED <<ocState, unwatchFns, subs, wsGen, orchVars,
                               clobVars>>
    /\ UNCHANGED <<dedupVars, chainVars, ocShuttingDown, ocEnriching,
                   ocErrorCount, ocEventsDetected, lastBlockSeen,
                   ocPublished, recordedAtStart>>
    /\ UNCHANGED moreVars

\* getBlockNumber failed on every attempt of withRetry: start() sets 'failed'
\* and rejects; scheduleReconnect reports the error and gives up
OcHeadFail ==
    /\ Up
    /\ ocTask.pc = "head"
    /\ ocTask' = NoTask
    /\ ocErrorCount' = Min(ocErrorCount + 1, MaxCount)
    /\ IF ocTask.kind = "start"
       THEN /\ ocState' = "failed"
            /\ OrchAfterOnChain("failed")
       ELSE UNCHANGED <<ocState, orchVars, clobVars>>
    /\ UNCHANGED <<dedupVars, chainVars, ocShuttingDown, unwatchFns, subs,
                   wsGen, ocEnriching, ocEventsDetected, lastBlockSeen,
                   ocPublished, recordedAtStart>>
    /\ orchErrorEvents' = Min(orchErrorEvents + 1, MaxCount)
    /\ UNCHANGED <<stopVars, errorTick, pollVars, hashVars, cacheVars, lateVars>>

\* one turn of the loop of backfillExchange: the two getContractEvents calls
\* of a chunk succeed and its logs go to processLog, or one fails after its
\* retries and the chunk is logged and passed over; then the cursor moves on
OcChunk(ok) ==
    /\ Up
    /\ ocTask.pc = "chunk"
    /\ LET chunkEnd == IF ocTask.cursor + MAX_BLOCK_RANGE - 1 > ocTask.to
                       THEN ocTask.to
                       ELSE ocTask.cursor + MAX_BLOCK_RANGE - 1
           allLogs == {b \in ocTask.cursor..chunkEnd :
                          chain[b] = Exchanges[ocTask.ex]}
       IN  /\ Enqueue(IF ok THEN allLogs ELSE {})
           /\ IF chunkEnd + 1 <= ocTask.to
              THEN /\ ocTask' = [ocTask EXCEPT !.cursor = chunkEnd + 1]
                   /\ UNCHANGED <<ocState, unwatchFns, subs, wsGen, orchVars,
                                  clobVars>>
              ELSE IF ocTask.ex < Len(Exchanges)
              THEN /\ ocTask' = [ocTask EXCEPT !.ex = ocTask.ex + 1,
                                               !.cursor = ocTask.from]
                   /\ UNCHANGED <<ocState, unwatchFns, subs, wsGen, orchVars,
                                  clobVars>>
              ELSE Subscribe(ocTask.kind,
                             IF ocTask.kind = "start" THEN unwatchFns ELSE {})
    /\ UNCHANGED <<dedupVars, chainVars, ocShuttingDown, ocErrorCount,
                   ocEventsDetected, ocPublished, recordedAtStart>>
    /\ UNCHANGED moreVars

\* enrichTimestamp settles for a detection of block b and emitTrade hands it
\* to the orchestrator's handleTradeEvent
EnrichDone(b) ==
    /\ Up
    /\ b \in 1..MaxBlock
    /\ ocEnriching[b] > 0
    /\ ocEnriching' = [ocEnriching EXCEPT ![b] = @ - 1]
    /\ ocEventsDetected' = Min(ocEventsDetected + 1, MaxCount)
    /\ ocPublished' = ocPublished \cup {b}
    /\ handleTradeEvent(ChainOnChainEvent[b], "")
    /\ UNCHANGED <<chainVars, orchVars, clobVars, ocState, ocShuttingDown,
                   ocTask, unwatchFns, subs, wsGen, ocErrorCount,
                   lastBlockSeen, recordedAtStart>>
    /\ UNCHANGED moreVars

\* the subscriptions a run can open, with whether onError has run for them
Handles ==
    [gen : 1..MaxGen, exchange : {Exchanges[i] : i \in 1..2},
     errored : BOOLEAN]

\* the socket of a subscription drops and its onError callback runs
StreamError(h) ==
    /\ Up
    /\ h \in subs
    /\ ~h.errored
    /\ wsGen < MaxGen
    /\ subs' = (subs \ {h}) \cup {[h EXCEPT !.errored = TRUE]}
    /\ IF ocShuttingDown
       THEN UNCHANGED <<ocErrorCount, ocState, ocTask>>
       ELSE /\ ocErrorCount' = Min(ocErrorCount + 1, MaxCount)
            /\ IF ocState = "running"
               THEN /\ ocState' = "reconnecting"
                    /\ ocTask' = [NoTask EXCEPT !.kind = "reconnect",
                                                !.pc = "sleep"]
               ELSE UNCHANGED <<ocState, ocTask>>
    /\ UNCHANGED <<dedupVars, chainVars, orchVars, clobVars, ocShuttingDown,
                   unwatchFns, wsGen, ocEnriching, ocEventsDetected,
                   lastBlockSeen, ocPublished, recordedAtStart>>
    /\ UNCHANGED moreVars

\* scheduleReconnect after its sleep: a new WebSocket client, then the
\* backfill up to its first suspension
OcReconnectWake ==
    /\ Up
    /\ ocTask.kind = "reconnect"
    /\ ocTask.pc = "sleep"
    /\ IF ocShuttingDown
       THEN /\ ocTask' = NoTask
            /\ UNCHANGED <<ocState, unwatchFns, subs, wsGen, orchVars,
                           clobVars>>
       ELSE BeginBackfill("reconnect", {})
    /\ UNCHANGED <<dedupVars, chainVars, ocShuttingDown, ocEnriching,
                   ocErrorCount, ocEventsDetected, lastBlockSeen,
                   ocPublished, recordedAtStart>>
    /\ UNCHANGED moreVars

\* the page the Data API returns: the participant's trades, latest first
RECURSIVE Page(_, _)
Page(ch, b) ==
    IF b = 0 THEN <<>>
    ELSE IF ch[b] # "none" THEN <<b>> \o Page(ch, b - 1)
    ELSE Page(ch, b - 1)

\* orchestrator.start() resumes after clobWatcher.start() settled: it reads
\* the aggregate health and raises when that is 'unhealthy'
OrchAfterClob(result, clobNow) ==
    LET status == getHealth(<<ocState, clobNow>>)
    IN  /\ clobStartResult' = result
        /\ startOutcome' = IF status = "unhealthy" THEN "raised"
                           ELSE "returned"
        /\ orchPc' = IF status = "unhealthy" THEN "raised" ELSE "started"
        /\ UNCHANGED ocStartResult

schedulePoll_never(isShuttingDown) == FALSE

\* ClobWatcher.schedulePoll: whether a timer is armed afterwards
schedulePoll(isShuttingDown) == ~isShuttingDown

\* poll() got its page: every row newer than the high-water mark is mapped
\* and emitted, the mark moves up; then start() or the timer callback goes on
ClobPollOk ==
    /\ Up
    /\ clobTask # "none"
    /\ \E trades \in {Page(chain, Len(chain))} :
       \E fresh \in {SelectSeq(trades, LAMBDA b :
                        ChainFill(b).timestamp > lastSeenTimestamp)} :
       \E events \in {[i \in 1..Len(fresh) |-> ChainClobEvent[fresh[i]]]} :
       \E s \in {HandledAll(Pipeline, events)} :
           /\ BecomePipeline(s)
           /\ clobEventsDetected' =
                  Min(clobEventsDetected + Len(fresh), MaxCount)
           /\ lastSeenTimestamp' =
                  Max({lastSeenTimestamp} \cup
                      {ChainFill(trades[i]).timestamp : i \in 1..Len(trades)})
    /\ clobState' = "running"
    /\ pollTimer' = schedulePoll(clobShuttingDown)
    /\ clobTask' = "none"
    /\ IF clobTask = "startPoll"
       THEN OrchAfterClob("ok", "running")
       ELSE UNCHANGED orchVars
    /\ UNCHANGED <<chainVars, ocVars, clobShuttingDown, clobErrorCount>>
    /\ UNCHANGED moreVars

\* the fetch of poll() failed on every attempt of withRetry: start() sets
\* 'failed' and rejects; the timer callback reports the error and re-arms
ClobPollFail ==
    /\ Up
    /\ clobTask # "none"
    /\ clobErrorCount' = Min(clobErrorCount + 1, MaxCount)
    /\ clobTask' = "none"
    /\ IF clobTask = "startPoll"
       THEN /\ clobState' = "failed"
            /\ OrchAfterClob("failed", "failed")
            /\ UNCHANGED pollTimer
       ELSE /\ pollTimer' = schedulePoll(clobShuttingDown)
            /\ UNCHANGED <<clobState, orchVars>>
    /\ UNCHANGED <<dedupVars, chainVars, ocVars, clobShuttingDown,
                   lastSeenTimestamp, clobEventsDetected>>
    /\ orchErrorEvents' = Min(orchErrorEvents + 1, MaxCount)
    /\ UNCHANGED <<stopVars, errorTick, pollVars, hashVars, cacheVars, lateVars>>

\* the timer armed by schedulePoll fires and its callback calls poll()
ClobTimerFire ==
    /\ Up
    /\ pollTimer
    /\ pollTimer' = FALSE
    /\ clobTask' = "timerPoll"
    /\ UNCHANGED <<dedupVars, chainVars, orchVars, ocVars, clobState,
                   clobShuttingDown, lastSeenTimestamp, clobErrorCount,
                   clobEventsDetected>>
    /\ UNCHANGED moreVars

setState_always(state, newState) ==
    [state |-> newState, notified |-> TRUE]

\* BaseWatcher.setState: nothing happens when the state is the same;
\* otherwise the state changes and 'stateChange' is emitted
setState(state, newState) ==
    [state |-> newState, notified |-> state # newState]

\* OnChainWatcher.stop() on a watcher w: every handle of unwatchFns is
\* unsubscribed (an unwatch that raises is ignored), then setState
OnChainStop(w) ==
    LET st == setState(w.state, "stopped")
    IN  [state |-> st.state, isShuttingDown |-> TRUE, unwatchFns |-> {},
         subs |-> {h \in w.subs :
                     [gen |-> h.gen, exchange |-> h.exchange]
                         \notin w.unwatchFns},
         notified |-> st.notified]

\* ClobWatcher.stop() on a watcher w
ClobStop(w) ==
    LET st == setState(w.state, "stopped")
    IN  [state |-> st.state, isShuttingDown |-> TRUE, pollTimer |-> FALSE,
         notified |-> st.notified]

OnChainWatcherNow ==
    [state |-> ocState, isShuttingDown |-> ocShuttingDown,
     unwatchFns |-> unwatchFns, subs |-> subs]

ClobWatcherNow ==
    [state |-> clobState, isShuttingDown |-> clobShuttingDown,
     pollTimer |-> pollTimer]

stop_all(results) ==
    IF \E i \in 1..Len(results) : results[i] = "failed" THEN "raised"
    ELSE "returned"

\* WatcherOrchestrator.stop(): Promise.allSettled over the two stops never
\* rejects; rejected results are logged
stop(results) == "returned"

\* a shutdown signal after start() returned: orchestrator.stop() calls stop
\* on both watchers, then index.ts exits; a stop rejects when a listener of
\* its 'stateChange' notification raises
Shutdown(ocRaises, clobRaises) ==
    /\ orchPc = "started"
    /\ orchPc' = "exited"
    /\ \E oc \in {OnChainStop(OnChainWatcherNow)} :
       \E clob \in {ClobStop(ClobWatcherNow)} :
          /\ ocRaises => oc.notified
          /\ clobRaises => clob.notified
          /\ ocShuttingDown' = oc.isShuttingDown
          /\ subs' = oc.subs
          /\ unwatchFns' = oc.unwatchFns
          /\ ocState' = oc.state
          /\ clobShuttingDown' = clob.isShuttingDown
          /\ pollTimer' = clob.pollTimer
          /\ clobState' = clob.state
    /\ ocStopResult' = IF ocRaises THEN "failed" ELSE "ok"
    /\ clobStopResult' = IF clobRaises THEN "failed" ELSE "ok"
    /\ stopOutcome' = stop(<<ocStopResult', clobStopResult'>>)
    /\ UNCHANGED <<dedupVars, chainVars, ocStartResult, clobStartResult,
                   startOutcome, ocTask, wsGen, ocEnriching, ocErrorCount,
                   ocEventsDetected, lastBlockSeen, ocPublished,
                   recordedAtStart, clobTask, lastSeenTimestamp,
                   clobErrorCount, clobEventsDetected>>
    /\ UNCHANGED <<noticeVars, pollVars, hashVars, cacheVars, lateVars>>

\* the steps of the on-chain watcher and of the calls it makes
OnChainNext ==
    \/ OcHeadOk
    \/ OcHeadFail
    \/ \E ok \in BOOLEAN : OcChunk(ok)
    \/ \E b \in 1..MaxBlock : EnrichDone(b)
    \/ \E h \in Handles : StreamError(h)
    \/ OcReconnectWake

\* the process from its start to its exit, over the chain as it stands when
\* the process starts
InitStartup ==
    /\ chain \in {<<"ctf">>, <<"ctf", "neg-risk">>}
    /\ InitProcess

NextStartup ==
    \/ OrchStart
    \/ OnChainNext
    \/ ClobPollOk
    \/ ClobPollFail
    \/ ClobTimerFire
    \/ \E ocRaises \in BOOLEAN, clobRaises \in BOOLEAN :
          Shutdown(ocRaises, clobRaises)

SpecStartup == InitStartup /\ [][NextStartup]_vars

\* the process kept up while the chain grows: the Data API answers and no
\* shutdown signal comes
InitWatch ==
    /\ chain = <<"ctf">>
    /\ InitProcess

NextWatch ==
    \/ \E kind \in BlockKinds : MineBlock(kind)
    \/ OrchStart
    \/ OnChainNext
    \/ ClobPollOk
    \/ ClobTimerFire

\* the steps the process takes by itself are taken; mined blocks, dropped
\* sockets and failed calls are the environment's choice
FairSpecWatch ==
    /\ InitWatch
    /\ [][NextWatch]_vars
    /\ WF_vars(OrchStart)
    /\ WF_vars(OcHeadOk \/ OcHeadFail)
    /\ WF_vars(\E ok \in BOOLEAN : OcChunk(ok))
    /\ \A b \in 1..MaxBlock : WF_vars(EnrichDone(b))
    /\ WF_vars(OcReconnectWake)
    /\ WF_vars(ClobPollOk)
    /\ WF_vars(ClobTimerFire)


-----------------------------------------------------------------------------
(* Claims about the Deduplicator and the unified stream.                   *)

\* C1: the orchestrator emits a detection on its unified 'trade' stream
\* exactly when Deduplicator.process reported it new, and no identity is
\* emitted on the unified stream more than once, whatever the interleaving
\* of the two watchers' notifications, evictions and restarts.
C1_PublishedOnlyWhenNew ==
    /\ lastCall.made => (lastCall.emitted <=> lastCall.isNew)
    /\ \A id \in DOMAIN unified : unified[id] <= 1

\* an identity admitted and published by this Deduplicator, evicted from
\* its LRU set, notified again and stopped by the durable layer
C1_Witness ==
    /\ lastCall.made
    /\ lastCall.id \in admittedNow
    /\ ~lastCall.lruHit
    /\ ~lastCall.isNew
    /\ ~lastCall.emitted
    /\ lastCall.id \in DOMAIN unified
    /\ unified[lastCall.id] = 1

\* C2: when Deduplicator.process returns isNew = true, the store holds a
\* row with the event's identity.
C2_NewImpliesPersisted ==
    (lastCall.made /\ lastCall.isNew) => exists(store, lastCall.id)

C2_Witness ==
    /\ lastCall.made
    /\ lastCall.isNew
    /\ ~lastCall.wasStored
    /\ exists(store, lastCall.id)

\* C3: for an identity that was not in the store, the first process call
\* returns isNew = true, and no later process call on an identity returns
\* isNew = true, for every LRU capacity and whatever was processed between.
C3_FirstNewThenDuplicate ==
    /\ \A id \in DOMAIN firstResult :
          ~firstResult[id].wasStored => firstResult[id].isNew
    /\ laterNew = {}

\* a repeat that the LRU set had already evicted
C3_Witness ==
    /\ lastCall.made
    /\ lastCall.id \in admittedNow
    /\ firstResult[lastCall.id].isNew
    /\ ~lastCall.lruHit
    /\ ~lastCall.isNew
    /\ lruSize = 2

\* C4: admission depends on (transaction hash, log position) alone: a call
\* is new exactly when no row with that hash and position was stored, and
\* two calls in sequence with the same hash and position but different
\* source tags yield (true, false).
C4_SourceIndependent ==
    /\ lastCall.made => (lastCall.isNew <=> ~lastCall.wasStored)
    /\ ( /\ prevCall.made
         /\ lastCall.made
         /\ prevCall.txHash = lastCall.txHash
         /\ prevCall.logIndex = lastCall.logIndex
         /\ prevCall.source # lastCall.source
         /\ ~prevCall.wasStored )
       => (prevCall.isNew /\ ~lastCall.isNew)

\* the poll watcher's detection first, the on-chain one second
C4_Witness ==
    /\ prevCall.made
    /\ lastCall.made
    /\ prevCall.txHash = lastCall.txHash
    /\ prevCall.logIndex = lastCall.logIndex
    /\ prevCall.source = "clob-api"
    /\ lastCall.source = "on-chain"
    /\ prevCall.isNew
    /\ ~lastCall.isNew

\* C5: a fresh Deduplicator over the same store reports every identity
\* that an earlier instance admitted as not new, and the identity is in its
\* in-memory set after the call.
C5_RestartDuplicate ==
    (lastCall.made /\ lastCall.id \in admittedEarlier)
       => (~lastCall.isNew /\ lastCall.inLru)

\* the first sighting by the new instance: its LRU set did not hold it
C5_Witness ==
    /\ lastCall.made
    /\ lastCall.id \in admittedEarlier
    /\ lastCall.id \in DOMAIN firstResult
    /\ firstResult[lastCall.id].isNew
    /\ ~lastCall.lruHit
    /\ ~lastCall.isNew
    /\ lastCall.inLru

\* C6: a fill observed by both watchers has one identity, and is published
\* on the unified stream once.
C6_SameFillSameIdentity ==
    \A f \in Fills :
        LET a == OnChainDetections[f].id
            b == ClobDetections[f].id
        IN  (exists(store, a) /\ exists(store, b))
               => /\ a = b
                  /\ f.name \in DOMAIN fillsPublished => fillsPublished[f.name] <= 1

\* C7: every event the Deduplicator has inserted into the store is
\* eventually emitted on the unified stream, also when the process stops
\* and restarts between the insert and the emit.
C7_AtLeastOnceDelivery ==
    \A f \in OneFill :
        /\ exists(store, OnChainDetections[f].id)
              ~> (OnChainDetections[f].id \in DOMAIN unified)
        /\ exists(store, ClobDetections[f].id)
              ~> (ClobDetections[f].id \in DOMAIN unified)

-----------------------------------------------------------------------------
(* Claims about the watchers and the orchestrator.                         *)

\* block b holds a fill of the participant after the last block the store
\* had recorded when the on-chain watcher was started
MissedFill(b) ==
    /\ b <= Len(chain)
    /\ chain[b] # "none"
    /\ recordedAtStart # 0
    /\ b > recordedAtStart

\* C8: no fill is lost by the on-chain watcher: once it is running, every
\* fill of the participant in a block after the last durably recorded block
\* is eventually published by it (or the process has ended), even when a
\* backfill chunk failed after its retries or blocks were mined between the
\* head query and the opening of the subscription.
C8_NoFillLost ==
    \A b \in 1..MaxBlock :
        (MissedFill(b) /\ ocStartResult = "ok" /\ ocState = "running")
            ~> (b \in ocPublished \/ ~Up)

\* C9: WatcherOrchestrator.start() starts the on-chain watcher first and the
\* clob watcher second, whatever the first did; it raises exactly when both
\* failed to start and returns normally when at least one started.
C9_StartRaisesIffBothFailed ==
    /\ clobStartResult # "none" => ocStartResult # "none"
    /\ startOutcome # "none" =>
          /\ ocStartResult # "none" /\ clobStartResult # "none"
          /\ startOutcome = "raised" <=>
                (ocStartResult = "failed" /\ clobStartResult = "failed")

WatcherStates ==
    {"idle", "starting", "running", "reconnecting", "stopped", "failed"}

\* the status the claim assigns to a pair of watcher states
StatusOf(a, b) ==
    LET running == {i \in 1..2 : <<a, b>>[i] = "running"}
    IN  CASE Cardinality(running) = 2 -> "healthy"
          [] Cardinality(running) = 1 -> "degraded"
          [] OTHER -> "unhealthy"

\* C10: the aggregate health is healthy exactly when both watchers are in
\* state running, degraded exactly when one of them is, unhealthy exactly
\* when none is; every other watcher state counts as not running.  Holds of
\* the watchers as they are and of every pair of watcher states.
C10_AggregateHealth ==
    /\ getHealth(<<ocState, clobState>>) = StatusOf(ocState, clobState)
    /\ \A a \in WatcherStates, b \in WatcherStates :
          getHealth(<<a, b>>) = StatusOf(a, b)

\* the stream dropped after start() returned: one watcher is reconnecting,
\* the other running, and the health is degraded
C10_Witness ==
    /\ ocState = "reconnecting"
    /\ clobState = "running"
    /\ getHealth(<<ocState, clobState>>) = "degraded"

\* C11: WatcherOrchestrator.stop() calls stop on both watchers and completes
\* without raising, also when one or both of the stops failed; a failed stop
\* of one watcher does not keep the other from being stopped.
C11_StopNeverRaises ==
    stopOutcome # "none" =>
        /\ stopOutcome = "returned"
        /\ ocStopResult # "none" /\ clobStopResult # "none"
        /\ ocShuttingDown /\ ocState = "stopped"
        /\ clobShuttingDown /\ clobState = "stopped" /\ ~pollTimer

\* orchestrator.stop() has returned although the on-chain watcher's stop
\* failed, and the clob watcher is stopped
C11_Witness ==
    /\ stopOutcome = "returned"
    /\ ocStopResult = "failed"
    /\ clobStopResult = "ok"
    /\ clobState = "stopped"

\* C12: in both watchers 'failed' is absorbing and is entered only from
\* 'starting': no step takes a watcher into 'failed' from another state, and
\* no step (Start, Stop, a stream error, a poll completion) takes a watcher
\* out of 'failed'.
C12_FailedAbsorbing ==
    [][/\ (ocState' = "failed" /\ ocState # "failed") => ocState = "starting"
       /\ (clobState' = "failed" /\ clobState # "failed")
              => clobState = "starting"
       /\ ocState = "failed" => ocState' = "failed"
       /\ clobState = "failed" => clobState' = "failed"]_vars

\* C13: Stop() is idempotent on both watchers: from any state, a never
\* started watcher included, Stop() leaves the watcher stopped, and a second
\* Stop() right after it changes nothing of the watcher and emits no
\* stateChange (so no listener can make it raise).
C13_StopIdempotent ==
    LET oc1 == OnChainStop(OnChainWatcherNow)
        oc2 == OnChainStop(oc1)
        clob1 == ClobStop(ClobWatcherNow)
        clob2 == ClobStop(clob1)
    IN  /\ oc1.state = "stopped"
        /\ clob1.state = "stopped"
        /\ oc2 = [oc1 EXCEPT !.notified = FALSE]
        /\ clob2 = [clob1 EXCEPT !.notified = FALSE]
        /\ stopOutcome # "none" =>
              /\ OnChainStop(OnChainWatcherNow) =
                     OnChainWatcherNow @@ [notified |-> FALSE]
              /\ ClobStop(ClobWatcherNow) =
                     ClobWatcherNow @@ [notified |-> FALSE]

\* both watchers were stopped while running with open subscriptions and an
\* armed timer, and a further Stop() finds nothing to do
C13_Witness ==
    /\ stopOutcome = "returned"
    /\ ocStopResult = "ok"
    /\ clobStopResult = "ok"
    /\ wsGen > 0
    /\ clobStartResult = "ok"
    /\ ~OnChainStop(OnChainWatcherNow).notified
    /\ ~ClobStop(ClobWatcherNow).notified

\* C14: after OnChainWatcher.stop() has returned, every subscription the
\* watcher opened since it was created, those opened before a reconnection
\* included, has been unsubscribed, and the state is stopped.
C14_StopUnsubscribesAll ==
    ocStopResult # "none" => (subs = {} /\ ocState = "stopped")

-----------------------------------------------------------------------------
(* Reconnection under stream errors that keep arriving.                    *)

\* onError runs once more for a subscription that already reported an error
\* (the socket of its client keeps failing): the same callback as in
\* StreamError, which schedules a reconnection only from 'running'
StreamErrorRepeat(h) ==
    /\ Up
    /\ h \in subs
    /\ h.errored
    /\ wsGen < MaxGen
    /\ errorTick' = ~errorTick
    /\ IF ocShuttingDown
       THEN UNCHANGED <<ocErrorCount, ocState, ocTask>>
       ELSE /\ ocErrorCount' = Min(ocErrorCount + 1, MaxCount)
            /\ IF ocState = "running"
               THEN /\ ocState' = "reconnecting"
                    /\ ocTask' = [NoTask EXCEPT !.kind = "reconnect",
                                                !.pc = "sleep"]
               ELSE UNCHANGED <<ocState, ocTask>>
    /\ UNCHANGED <<dedupVars, chainVars, orchVars, clobVars, ocShuttingDown,
                   unwatchFns, subs, wsGen, ocEnriching, ocEventsDetected,
                   lastBlockSeen, ocPublished, recordedAtStart>>
    /\ UNCHANGED <<stopVars, orchErrorEvents, pollVars, hashVars, cacheVars, lateVars>>

\* the started process while Stop() is not called: sockets drop and keep
\* reporting errors, RPC calls may fail, the Data API answers
NextReconnect ==
    \/ OrchStart
    \/ OnChainNext
    \/ \E h \in Handles : StreamErrorRepeat(h)
    \/ ClobPollOk
    \/ ClobTimerFire

\* the steps the watcher takes by itself are taken: a sleep ends, an RPC
\* call settles, a timer fires; stream errors are the environment's choice
FairSpecReconnect ==
    /\ InitStartup
    /\ [][NextReconnect]_vars
    /\ WF_vars(OrchStart)
    /\ WF_vars(OcHeadOk \/ OcHeadFail)
    /\ WF_vars(\E ok \in BOOLEAN : OcChunk(ok))
    /\ \A b \in 1..MaxBlock : WF_vars(EnrichDone(b))
    /\ WF_vars(OcReconnectWake)
    /\ WF_vars(ClobPollOk)
    /\ WF_vars(ClobTimerFire)

\* C15: reconnection is retried indefinitely: while Stop() is not called and
\* stream errors keep arriving (also after an earlier reconnection attempt
\* failed), the watcher does not stay in 'reconnecting' forever.
C15_ReconnectRetried ==
    ([]<>errorTick /\ []<>(~errorTick)) => []<>(ocState # "reconnecting")

-----------------------------------------------------------------------------
(* Order of publication within a backfill pass.                            *)

\* C16: within one backfill pass detections are published in ascending
\* (block, log position) order, across chunks and both exchange contracts:
\* while start() is in its backfill (no subscription opened yet), a block's
\* detection is never published after that of a later block.
C16_BackfillAscending ==
    [][\A b \in 1..MaxBlock :
          (wsGen = 0 /\ b \in ocPublished' /\ b \notin ocPublished)
              => \A c \in ocPublished : c < b]_vars

-----------------------------------------------------------------------------
(* One poll cycle of the ClobWatcher on any page the Data API may return   *)
(* (clob-watcher.ts, poll).                                                *)

\* bound: the timestamps a row may carry are 0..MaxTimestamp
MaxTimestamp == 2

\* bound: the longest page
MaxPage == 2

\* rows of a page: any timestamp, with or without a transaction hash
PollRows ==
    {[RowOf(ChainFill(1)) EXCEPT !.timestamp = ts, !.transactionHash = tx] :
        ts \in 0..MaxTimestamp, tx \in {"", "0xb1"}}

Pages == UNION {[1..n -> PollRows] : n \in 0..MaxPage}

\* mapToRawEvent returns null for a row without a transaction hash
Mappable(trade) == trade.transactionHash # ""

poll_inclusive(mark, trades) ==
    [emitted |-> SelectSeq(trades, LAMBDA t :
                     ~(t.timestamp < mark) /\ Mappable(t)),
     lastSeenTimestamp |-> Max({mark} \cup
                     {trades[i].timestamp : i \in 1..Len(trades)})]

\* ClobWatcher.poll on the fetched page: the rows whose detections are
\* emitted, in page order, and the high-water mark afterwards; every row is
\* compared with the mark as it was before the loop
poll(mark, trades) ==
    LET kept == SelectSeq(trades, LAMBDA t : ~(t.timestamp <= mark))
        maxTs == Max({trades[i].timestamp : i \in 1..Len(trades)})
    IN  [emitted |-> SelectSeq(kept, Mappable),
         lastSeenTimestamp |->
             IF Len(trades) > 0 /\ maxTs > mark THEN maxTs ELSE mark]

\* a ClobWatcher as constructed, on its own
InitPoll ==
    /\ store = {}
    /\ admittedEarlier = {}
    /\ InitVolatile({DefaultLruSize})
    /\ InitWatchers
    /\ chain = <<>>

\* start(), or the timer callback of schedulePoll, with a fetch that
\* succeeds: poll(), then setState('running') and the timer is armed
PollCycle ==
    /\ clobState # "running" \/ pollTimer
    /\ \E trades \in Pages :
       \E r \in {poll(lastSeenTimestamp, trades)} :
          /\ lastCycle' = [made |-> TRUE, mark |-> lastSeenTimestamp,
                           trades |-> trades, emitted |-> r.emitted]
          /\ lastSeenTimestamp' = r.lastSeenTimestamp
          /\ clobEventsDetected' =
                 Min(clobEventsDetected + Len(r.emitted), MaxCount)
    /\ clobState' = "running"
    /\ pollTimer' = schedulePoll(clobShuttingDown)
    /\ UNCHANGED <<dedupVars, chainVars, orchVars, ocVars, clobShuttingDown,
                   clobTask, clobErrorCount>>
    /\ UNCHANGED <<stopVars, noticeVars, hashVars, cacheVars, lateVars>>

NextPoll == PollCycle

SpecPoll == InitPoll /\ [][NextPoll]_vars

\* C17: a poll cycle publishes exactly the rows of the page whose timestamp
\* is strictly greater than the mark held when the cycle began and that
\* carry a transaction hash; afterwards the mark is the larger of the old
\* mark and the largest timestamp of the page, so it never decreases, and a
\* row with timestamp at or below the mark is never published.
C17_PollHighWaterMark ==
    lastCycle.made =>
        LET trades == lastCycle.trades
            stamps == {trades[i].timestamp : i \in 1..Len(trades)}
        IN  /\ lastCycle.emitted =
                   SelectSeq(trades, LAMBDA t :
                       t.timestamp > lastCycle.mark /\ t.transactionHash # "")
            /\ \A i \in 1..Len(lastCycle.emitted) :
                   lastCycle.emitted[i].timestamp > lastCycle.mark
            /\ lastSeenTimestamp = Max({lastCycle.mark} \cup stamps)
            /\ lastSeenTimestamp >= lastCycle.mark

\* a cycle that began with a mark above zero and met a row at the mark,
\* which it passed over, and a newer row, which it published
C17_Witness ==
    /\ lastCycle.made
    /\ lastCycle.mark > 0
    /\ \E i \in 1..Len(lastCycle.trades) :
          lastCycle.trades[i].timestamp = lastCycle.mark
    /\ Len(lastCycle.emitted) = 1
    /\ lastSeenTimestamp > lastCycle.mark

-----------------------------------------------------------------------------
(* The polling loop under failing fetches.                                 *)

\* the process from its start on: what the watchers do by themselves is
\* done (a fetch settles, well or badly; a timer fires); a shutdown signal
\* may come at any time or never
FairSpecPollLoop ==
    /\ InitStartup
    /\ [][NextStartup]_vars
    /\ WF_vars(OrchStart)
    /\ WF_vars(OcHeadOk \/ OcHeadFail)
    /\ WF_vars(\E ok \in BOOLEAN : OcChunk(ok))
    /\ \A b \in 1..MaxBlock : WF_vars(EnrichDone(b))
    /\ WF_vars(OcReconnectWake)
    /\ WF_vars(ClobPollOk \/ ClobPollFail)
    /\ WF_vars(ClobTimerFire)

\* C18: the poll watcher does not stop itself: while Stop() has not been
\* called, the end of every cycle run by the timer, whether its fetch
\* succeeded or failed after its retries, arms the timer for another cycle;
\* a failed cycle raises the error counter and the error notifications by
\* exactly one each, a successful one by none; so a started watcher that is
\* never stopped polls again and again.
C18_PollNeverStopsItself ==
    /\ [][(clobTask = "timerPoll" /\ clobTask' = "none" /\ ~clobShuttingDown)
            => /\ pollTimer'
               /\ clobState' \in {clobState, "running"}
               /\ \/ /\ clobErrorCount' = clobErrorCount
                     /\ orchErrorEvents' = orchErrorEvents
                  \/ /\ clobErrorCount' = Min(clobErrorCount + 1, MaxCount)
                     /\ orchErrorEvents' = Min(orchErrorEvents + 1, MaxCount)
                     /\ clobState' = clobState]_vars
    /\ (<>(clobStartResult = "ok") /\ [](stopOutcome = "none"))
            => []<>(clobTask = "timerPoll")

\* a cycle run by the timer has failed, reported its error, and the timer
\* is armed again
C18_Witness ==
    /\ clobStartResult = "ok"
    /\ clobErrorCount = 1
    /\ orchErrorEvents = 1
    /\ ocErrorCount = 0
    /\ clobState = "running"
    /\ clobTask = "none"
    /\ pollTimer
    /\ stopOutcome = "none"

-----------------------------------------------------------------------------
(* ClobWatcher.syntheticLogIndex on its own, over rows that differ in the  *)
(* four hashed fields and in a field the hash does not read.               *)

HashRows ==
    [transactionHash : {"0xa1", "0xb2"},
     conditionId : {<<>>, <<"0", "x", "c", "1">>,
                    <<"0", "x", "d", "e", "a", "d", "b", "e", "e", "f">>},
     timestamp : {0, 1700000017, 1700000042},
     size : {[whole |-> 0, frac |-> <<>>], [whole |-> 10, frac |-> <<>>],
             [whole |-> 2, frac |-> <<5>>]},
     price : {[whole |-> 1, frac |-> <<>>], [whole |-> 0, frac |-> <<3>>],
              [whole |-> 0, frac |-> <<6, 5>>]}]

\* the value for each row (evaluated once)
HashOf == [r \in HashRows |-> syntheticLogIndex(r)]

\* the int32 hash of each row's key, as halves
RawHashOf == [r \in HashRows |-> HashChars(<<0, 0>>, TradeKey(r))]

\* a ClobWatcher as constructed
InitHash == InitPoll

\* mapToRawEvent computes the synthetic log index of a row
ComputeLogIndex(trade) ==
    /\ hashRow' = trade
    /\ hashOut' = syntheticLogIndex(trade)
    /\ UNCHANGED <<dedupVars, watchVars, stopVars, noticeVars, pollVars,
                   cacheVars, lateVars>>

NextHash == \E trade \in HashRows : ComputeLogIndex(trade)

SpecHash == InitHash /\ [][NextHash]_vars

SameHashedFields(r, t) ==
    /\ r.conditionId = t.conditionId
    /\ r.timestamp = t.timestamp
    /\ r.size = t.size
    /\ r.price = t.price

\* C19: for every trade-history row the synthetic log index is an integer
\* from 100,000 up to 999,999, and rows that agree on condition id,
\* timestamp, size and price get the same value whatever their other
\* fields, the rolling hash being reduced to 32 bits at every step.
C19_SyntheticLogIndexRange ==
    hashRow # NoRow =>
        /\ hashOut \in Int
        /\ hashOut >= 100000
        /\ hashOut < 1000000
        /\ \A r \in HashRows :
              SameHashedFields(r, hashRow) => HashOf[r] = hashOut

\* a row whose 32-bit hash came out negative, so that Math.abs matters, and
\* whose value differs from that of a row with another timestamp
C19_Witness ==
    /\ hashRow # NoRow
    /\ RawHashOf[hashRow][1] >= 32768
    /\ Len(TradeKey(hashRow)) > 7
    /\ \E r \in HashRows :
          /\ r.transactionHash # hashRow.transactionHash
          /\ SameHashedFields(r, hashRow)
    /\ \E r \in HashRows : HashOf[r] # hashOut

-----------------------------------------------------------------------------
(* MarketCache (normalizer/cache/market-cache.ts): a Map in insertion      *)
(* order, oldest key first, of entries with an expiry time.                *)

\* bound: the capacities a cache is constructed with are 0..MaxCapacity
MaxCapacity == 3

\* bound: the time-to-live is 0..MaxTtl ticks of the clock
MaxTtl == 1

\* bound: the clock runs from 0 to MaxNow
MaxNow == 2

Tokens == {"A", "B", "C"}

\* market metadata by name, with the clobTokenIds each lists; an empty
\* token id is skipped by set
Markets ==
    [m1 |-> <<"A", "B">>, m2 |-> <<"C", "">>, m3 |-> <<"A", "B", "C">>,
     mA |-> <<"A">>, mB |-> <<"B">>, mC |-> <<"C">>, mD |-> <<"D">>]

\* markets with companion tokens
MarketNames == {"m1", "m2", "m3"}

\* four tokens, each the only token its market lists
LruTokens == {"A", "B", "C", "D"}

LruMarkets == [A |-> "mA", B |-> "mB", C |-> "mC", D |-> "mD"]

\* Map.prototype.set: the value of a key already present is replaced where
\* it stands; a new key goes to the end
MapSet(cache, key, entry) ==
    IF \E i \in 1..Len(cache) : cache[i].key = key
    THEN [i \in 1..Len(cache) |->
             IF cache[i].key = key THEN entry ELSE cache[i]]
    ELSE Append(cache, entry)

MapDelete(cache, key) == SelectSeq(cache, LAMBDA e : e.key # key)

\* MarketCache.evictIfNeeded: at or over capacity, the first key goes
evictIfNeeded(cache, maxSize) ==
    IF Len(cache) >= maxSize /\ Len(cache) > 0 THEN Tail(cache) ELSE cache

\* the loop of set over metadata.clobTokenIds
RECURSIVE setCompanions(_, _, _, _, _, _)
setCompanions(cache, maxSize, tokenId, tids, data, expiresAt) ==
    IF tids = <<>> THEN cache
    ELSE LET tid == Head(tids)
             next == IF tid # "" /\ tid # tokenId
                     THEN MapSet(evictIfNeeded(cache, maxSize), tid,
                                 [key |-> tid, data |-> data,
                                  expiresAt |-> expiresAt])
                     ELSE cache
         IN  setCompanions(next, maxSize, tokenId, Tail(tids), data,
                           expiresAt)

\* MarketCache.set: the cache afterwards
set(cache, maxSize, ttlMs, now, tokenId, metadata) ==
    LET expiresAt == now + ttlMs
        first == MapSet(evictIfNeeded(cache, maxSize), tokenId,
                        [key |-> tokenId, data |-> metadata,
                         expiresAt |-> expiresAt])
    IN  setCompanions(first, maxSize, tokenId, Markets[metadata], metadata,
                      expiresAt)

get_noExpiry(cache, now, tokenId) ==
    IF ~\E i \in 1..Len(cache) : cache[i].key = tokenId
    THEN [cache |-> cache, data |-> "null"]
    ELSE LET entry == cache[CHOOSE i \in 1..Len(cache) :
                                cache[i].key = tokenId]
         IN  [cache |-> Append(MapDelete(cache, tokenId), entry),
              data |-> entry.data]

\* MarketCache.get: the cache afterwards and the value returned
get(cache, now, tokenId) ==
    IF ~\E i \in 1..Len(cache) : cache[i].key = tokenId
    THEN [cache |-> cache, data |-> "null"]
    ELSE LET entry == cache[CHOOSE i \in 1..Len(cache) :
                                cache[i].key = tokenId]
         IN  IF now > entry.expiresAt
             THEN [cache |-> MapDelete(cache, tokenId), data |-> "null"]
             ELSE [cache |-> Append(MapDelete(cache, tokenId), entry),
                   data |-> entry.data]

\* an access (a get that returns a value, or a set) makes key the most
\* recently accessed
Touch(recency, key) ==
    IF key = "" THEN recency
    ELSE Append(SelectSeq(recency, LAMBDA k : k # key), key)

RECURSIVE TouchAll(_, _)
TouchAll(recency, keys) ==
    IF keys = <<>> THEN recency
    ELSE TouchAll(Touch(recency, Head(keys)), Tail(keys))

\* the order of access of the keys a cache still holds
Held(recency, cache) ==
    SelectSeq(recency, LAMBDA k : \E i \in 1..Len(cache) : cache[i].key = k)

\* a cache constructed with some capacity and time-to-live
InitCache ==
    /\ store = {}
    /\ admittedEarlier = {}
    /\ InitVolatile({DefaultLruSize})
    /\ chain = <<>>
    /\ orchPc = "idle"
    /\ ocStartResult = "none"
    /\ clobStartResult = "none"
    /\ startOutcome = "none"
    /\ ocState = "idle"
    /\ ocShuttingDown = FALSE
    /\ ocTask = NoTask
    /\ unwatchFns = {}
    /\ subs = {}
    /\ wsGen = 0
    /\ ocEnriching = [b \in 1..MaxBlock |-> 0]
    /\ ocErrorCount = 0
    /\ ocEventsDetected = 0
    /\ lastBlockSeen = 0
    /\ ocPublished = {}
    /\ recordedAtStart = 0
    /\ clobState = "idle"
    /\ clobShuttingDown = FALSE
    /\ pollTimer = FALSE
    /\ clobTask = "none"
    /\ lastSeenTimestamp = 0
    /\ clobErrorCount = 0
    /\ clobEventsDetected = 0
    /\ ocStopResult = "none"
    /\ clobStopResult = "none"
    /\ stopOutcome = "none"
    /\ errorTick = FALSE
    /\ orchErrorEvents = 0
    /\ InitPollAside
    /\ InitHashAside
    /\ mcCache = <<>>
    /\ mcMaxSize \in 0..MaxCapacity
    /\ mcTtl \in 0..MaxTtl
    /\ mcNow = 0
    /\ mcLast = NoCacheCall
    /\ mcRecency = <<>>
    /\ InitLate

CacheSet(tokenId, metadata) ==
    /\ mcCache' = set(mcCache, mcMaxSize, mcTtl, mcNow, tokenId, metadata)
    /\ mcLast' = [op |-> "set", key |-> tokenId, value |-> metadata,
                  tokens |-> Markets[metadata], at |-> mcNow, result |-> ""]
    /\ mcRecency' = Held(TouchAll(mcRecency, <<tokenId>> \o Markets[metadata]),
                         mcCache')
    /\ UNCHANGED <<mcMaxSize, mcTtl, mcNow>>
    /\ UNCHANGED <<dedupVars, watchVars, stopVars, noticeVars, pollVars,
                   hashVars, lateVars>>

CacheGet(tokenId) ==
    /\ \E r \in {get(mcCache, mcNow, tokenId)} :
          /\ mcCache' = r.cache
          /\ mcLast' = [op |-> "get", key |-> tokenId, value |-> "",
                        tokens |-> <<>>, at |-> mcNow, result |-> r.data]
          /\ mcRecency' = Held(IF r.data = "null" THEN mcRecency
                               ELSE Touch(mcRecency, tokenId), r.cache)
    /\ UNCHANGED <<mcMaxSize, mcTtl, mcNow>>
    /\ UNCHANGED <<dedupVars, watchVars, stopVars, noticeVars, pollVars,
                   hashVars, lateVars>>

\* Date.now() moves on
CacheTick ==
    /\ mcNow < MaxNow
    /\ mcNow' = mcNow + 1
    /\ UNCHANGED <<mcCache, mcMaxSize, mcTtl, mcLast, mcRecency>>
    /\ UNCHANGED <<dedupVars, watchVars, stopVars, noticeVars, pollVars,
                   hashVars, lateVars>>

NextCache ==
    \/ \E tokenId \in Tokens, metadata \in MarketNames :
          CacheSet(tokenId, metadata)
    \/ \E tokenId \in Tokens : CacheGet(tokenId)
    \/ CacheTick

SpecCache == InitCache /\ [][NextCache]_vars

\* the cache used with single-token markets: every set writes one key
NextLru ==
    \/ \E tokenId \in LruTokens : CacheSet(tokenId, LruMarkets[tokenId])
    \/ \E tokenId \in LruTokens : CacheGet(tokenId)
    \/ CacheTick

SpecLru == InitCache /\ [][NextLru]_vars

\* the keys a set call writes: its token and the companions it does not skip
Written(call) ==
    ({call.key} \cup {call.tokens[i] : i \in 1..Len(call.tokens)}) \ {""}

\* get(A) and then get(B) both return the value of the last set call, for
\* every companion B of that call
BothReturn(call) ==
    \A B \in Written(call) \ {call.key} :
        LET a == get(mcCache, mcNow, call.key)
            b == get(a.cache, mcNow, B)
        IN  a.data = call.value /\ b.data = call.value

\* C20: immediately after set(A, m), where m lists a companion token B other
\* than A, get(A) and get(B) both return m while the time-to-live has not
\* elapsed, for any capacity and any prior contents; stated here for the
\* capacities that can hold all the keys the call writes, which "any
\* capacity" includes.
C20_SetReachesCompanion ==
    (/\ mcLast.op = "set"
     /\ mcNow <= mcLast.at + mcTtl
     /\ mcMaxSize >= Cardinality(Written(mcLast)))
        => BothReturn(mcLast)

\* the keys of a cache, in Map order
Keys(cache) == [i \in 1..Len(cache) |-> cache[i].key]

\* C21: an entry is unreachable once its time-to-live has elapsed, without
\* any explicit eviction: for an entry whose set time plus TTL is in the
\* past, get returns absent and removes that entry (and no other); for an
\* entry still within its TTL, get returns its value and removes nothing.
C21_ExpiredUnreachable ==
    \A i \in 1..Len(mcCache) :
        LET entry == mcCache[i]
            r == get(mcCache, mcNow, entry.key)
        IN  IF entry.expiresAt < mcNow
            THEN /\ r.data = "null"
                 /\ r.cache = SelectSeq(mcCache, LAMBDA e : e.key # entry.key)
            ELSE /\ r.data = entry.data
                 /\ {r.cache[j] : j \in 1..Len(r.cache)} =
                        {mcCache[j] : j \in 1..Len(mcCache)}

\* get has just answered absent for a key at a time when its sibling, set
\* by the same call, is still in the Map with its expiry time in the past
C21_Witness ==
    /\ mcLast.op = "get"
    /\ mcLast.result = "null"
    /\ mcLast.at > 0
    /\ \E i \in 1..Len(mcCache) :
          /\ mcCache[i].expiresAt < mcNow
          /\ mcLast.key \in {Markets[mcCache[i].data][j] :
                                j \in 1..Len(Markets[mcCache[i].data])}
          /\ get(mcCache, mcNow, mcCache[i].key).data = "null"
    /\ mcLast.key \notin {mcCache[i].key : i \in 1..Len(mcCache)}

KeySet(cache) == {cache[i].key : i \in 1..Len(cache)}

\* the place of a key in the order of access (1: least recently accessed)
Rank(recency, key) == CHOOSE i \in 1..Len(recency) : recency[i] = key

\* C22: when set inserts a new key while the cache is at capacity, the entry
\* it evicts is the least recently accessed one, an access being a get that
\* returned the value or a set of that key: the key evicted was accessed
\* less recently than every key the set leaves in the cache.
C22_EvictsLeastRecentlyAccessed ==
    [][(/\ mcLast'.op = "set"
        /\ mcNow' = mcNow
        /\ mcLast'.key \notin KeySet(mcCache)
        /\ Len(mcCache) >= mcMaxSize)
          => \A e \in KeySet(mcCache) \ KeySet(mcCache') :
             \A k \in (KeySet(mcCache) \cap KeySet(mcCache'))
                          \ Written(mcLast') :
                 Rank(mcRecency, e) < Rank(mcRecency, k)]_vars

-----------------------------------------------------------------------------
(* MarketResolver (market-resolver.ts): token id -> market, through the    *)
(* MarketCache and, on a miss, one lookup at the Gamma API.                 *)

\* metadata.outcomes of each market, as parseGammaResponse leaves it: the
\* list is parsed on its own, so it can be shorter than clobTokenIds
Outcomes ==
    [m1 |-> <<"Yes", "No">>, m2 |-> <<"Yes", "No">>, m3 |-> <<"Yes", "No">>,
     mA |-> <<"Yes">>, mB |-> <<"Yes">>, mC |-> <<"Yes">>, mD |-> <<"Yes">>]

\* Array.prototype.indexOf, 0-based, -1 when absent
indexOf(list, x) ==
    IF \E i \in 1..Len(list) : list[i] = x
    THEN (CHOOSE i \in 1..Len(list) :
              list[i] = x /\ \A j \in 1..(i - 1) : list[j] # x) - 1
    ELSE 0 - 1

MathMax(a, b) == IF a >= b THEN a ELSE b

\* MarketResolver.buildResolvedMarket
buildResolvedMarket(metadata, tokenId) ==
    LET outcomeIndex == indexOf(Markets[metadata], tokenId)
        outcome == IF outcomeIndex >= 0 /\ outcomeIndex < Len(Outcomes[metadata])
                   THEN Outcomes[metadata][outcomeIndex + 1]
                   ELSE "Unknown"
    IN  [metadata |-> metadata, outcome |-> outcome,
         outcomeIndex |-> MathMax(outcomeIndex, 0), tokenId |-> tokenId]

\* what fetchMarketByTokenId can give: a raised or exhausted request
\* ("error"), no rows ("empty"), or the first row, parsed
Responses == {"error", "empty"} \cup MarketNames

\* fetchMarketByTokenId: the metadata, or "null"
fetchMarketByTokenId(response) ==
    IF response \in {"error", "empty"} THEN "null" ELSE response

cacheResult_skip(cache, maxSize, ttlMs, now, tokenId, metadata) == cache

\* resolve, "Cache the result": this.cache.set(tokenId, metadata)
cacheResult(cache, maxSize, ttlMs, now, tokenId, metadata) ==
    set(cache, maxSize, ttlMs, now, tokenId, metadata)

Resolved(tokenId, response, lookups, metadata, sizeBefore) ==
    [tokenId |-> tokenId, response |-> response, lookups |-> lookups,
     result |-> metadata,
     outcome |-> IF metadata = "null" THEN ""
                 ELSE buildResolvedMarket(metadata, tokenId).outcome,
     outcomeIndex |-> IF metadata = "null" THEN 0
                      ELSE buildResolvedMarket(metadata, tokenId).outcomeIndex,
     at |-> mcNow, sizeBefore |-> sizeBefore]

\* resolve('0'): the collateral token
ResolveCollateralStep ==
    /\ rsLast' = Resolved("0", "", 0, "null", Len(mcCache))
    /\ UNCHANGED <<gammaCalls, rsPending, cacheVars>>

ResolveCollateral ==
    /\ ResolveCollateralStep
    /\ UNCHANGED <<dedupVars, watchVars, stopVars, noticeVars, pollVars,
                   hashVars, enrichVars>>

\* resolve(tokenId) up to its first await: the cache is asked; a hit
\* returns, a miss sends the lookup
ResolveStartStep(tokenId) ==
    /\ rsPending = ""
    /\ \E r \in {get(mcCache, mcNow, tokenId)} :
          /\ mcCache' = r.cache
          /\ mcLast' = [op |-> "get", key |-> tokenId, value |-> "",
                        tokens |-> <<>>, at |-> mcNow, result |-> r.data]
          /\ mcRecency' = Held(IF r.data = "null" THEN mcRecency
                               ELSE Touch(mcRecency, tokenId), r.cache)
          /\ IF r.data # "null"
             THEN /\ rsLast' = Resolved(tokenId, "", 0, r.data, Len(mcCache))
                  /\ UNCHANGED <<gammaCalls, rsPending>>
             ELSE /\ rsPending' = tokenId
                  /\ gammaCalls' = IF gammaCalls < MaxCount
                                   THEN gammaCalls + 1 ELSE gammaCalls
                  /\ UNCHANGED rsLast
    /\ UNCHANGED <<mcMaxSize, mcTtl, mcNow>>

ResolveStart(tokenId) ==
    /\ ResolveStartStep(tokenId)
    /\ UNCHANGED <<dedupVars, watchVars, stopVars, noticeVars, pollVars,
                   hashVars, enrichVars>>

\* the lookup answers and resolve runs to its return
ResolveFinishStep(response) ==
    /\ rsPending # ""
    /\ rsPending' = ""
    /\ \E metadata \in {fetchMarketByTokenId(response)} :
          /\ rsLast' = Resolved(rsPending, response, 1, metadata, Len(mcCache))
          /\ IF metadata = "null"
             THEN UNCHANGED <<mcCache, mcLast, mcRecency>>
             ELSE /\ mcCache' = cacheResult(mcCache, mcMaxSize, mcTtl, mcNow,
                                            rsPending, metadata)
                  /\ mcLast' = [op |-> "set", key |-> rsPending,
                                value |-> metadata,
                                tokens |-> Markets[metadata], at |-> mcNow,
                                result |-> ""]
                  /\ mcRecency' = Held(TouchAll(mcRecency, <<rsPending>>
                                                \o Markets[metadata]),
                                       mcCache')
    /\ UNCHANGED <<gammaCalls, mcMaxSize, mcTtl, mcNow>>

ResolveFinish(response) ==
    /\ ResolveFinishStep(response)
    /\ UNCHANGED <<dedupVars, watchVars, stopVars, noticeVars, pollVars,
                   hashVars, enrichVars>>

NextResolver ==
    \/ ResolveCollateral
    \/ \E tokenId \in Tokens : ResolveStart(tokenId)
    \/ \E response \in Responses : ResolveFinish(response)
    \/ CacheTick

SpecResolver == InitCache /\ [][NextResolver]_vars

\* the keys the last cache.set wrote, in the order it wrote them
WrittenSeq(call) ==
    <<call.key>> \o SelectSeq(call.tokens, LAMBDA k : k # "" /\ k # call.key)

\* resolve(tokenId) up to its first await, as a function of the cache:
\* whether a lookup goes out, the metadata served, the cache afterwards
resolveSync(cache, now, tokenId) ==
    IF tokenId = "0"
    THEN [lookup |-> FALSE, data |-> "null", cache |-> cache]
    ELSE LET r == get(cache, now, tokenId)
         IN  [lookup |-> r.data = "null", data |-> r.data, cache |-> r.cache]

\* the last resolve answered from the Gamma API and cached its answer, and
\* nothing has touched the cache since
JustCached ==
    /\ rsLast.lookups = 1
    /\ rsLast.result # "null"
    /\ rsPending = ""
    /\ mcLast.op = "set"
    /\ mcLast.key = rsLast.tokenId
    /\ mcLast.at = rsLast.at

EntryOf(cache, key) == cache[CHOOSE i \in 1..Len(cache) : cache[i].key = key]

\* C23: a successful resolve(t) writes the metadata into the Market Cache
\* before returning (the key written last is always held, and every written
\* key is held when the cache had room for them all); every entry the cache
\* still holds (not evicted) and whose time-to-live has not run out is
\* served by resolve without a lookup, for t and for its sibling tokens
\* alike; resolve("0") returns absent with no lookup and no cache change.
C23_ResolveServedFromCache ==
    /\ resolveSync(mcCache, mcNow, "0")
         = [lookup |-> FALSE, data |-> "null", cache |-> mcCache]
    /\ rsLast.tokenId = "0" => rsLast.result = "null" /\ rsLast.lookups = 0
    /\ \A i \in 1..Len(mcCache) :
          mcNow <= mcCache[i].expiresAt
              => LET r == resolveSync(mcCache, mcNow, mcCache[i].key)
                 IN  ~r.lookup /\ r.data = mcCache[i].data
    /\ JustCached =>
          LET keys == WrittenSeq(mcLast)
          IN  /\ keys[Len(keys)] \in KeySet(mcCache)
              /\ rsLast.sizeBefore + Len(keys) < mcMaxSize
                     => \A k \in Written(mcLast) : k \in KeySet(mcCache)
              /\ \A k \in Written(mcLast) \cap KeySet(mcCache) :
                    /\ EntryOf(mcCache, k).data = rsLast.result
                    /\ EntryOf(mcCache, k).expiresAt = rsLast.at + mcTtl
                    /\ mcNow <= rsLast.at + mcTtl
                           => LET r == resolveSync(mcCache, mcNow, k)
                              IN  ~r.lookup /\ r.data = rsLast.result
    /\ (rsLast.lookups = 0 /\ rsLast.tokenId \notin {"", "0"})
           => rsLast.result # "null"

\* resolve(A) fetched market m1 = [A, B] and cached it; time has moved on
\* within the time-to-live; the later resolve of the sibling B was served
\* from the cache: one lookup in all
C23_Witness ==
    /\ gammaCalls = 1
    /\ rsLast.tokenId = "B"
    /\ rsLast.lookups = 0
    /\ rsLast.result = "m1"
    /\ rsLast.at > 0
    /\ \E i \in 1..Len(mcCache) :
          mcCache[i].key = "A" /\ mcCache[i].data = "m1"
              /\ mcCache[i].expiresAt < rsLast.at + mcTtl

\* C24: whenever resolve reports the outcome name "Unknown" (the token is
\* not among the market's tokens, or it stands at an index for which the
\* market has no outcome name), the outcome index it reports is 0.
C24_UnknownOutcomeIndexZero ==
    (rsLast.result # "null" /\ rsLast.outcome = "Unknown")
        => rsLast.outcomeIndex = 0

-----------------------------------------------------------------------------
(* computeMarketPhase (market-phase.ts).  A time in milliseconds is kept   *)
(* as whole days d and the milliseconds ms within the day, the value being *)
(* d * MS_PER_DAY + ms with 0 <= ms < MS_PER_DAY, so that thirty days of   *)
(* milliseconds stay inside the model checker's integers.                  *)

MS_PER_DAY == 86400000

\* the thresholds, in days
NEAR_RESOLUTION_THRESHOLD == 1
LATE_THRESHOLD == 7
MID_THRESHOLD == 30

\* the largest number of days to the end date tried
MaxDays == 32
\* the largest 'now' tried, in days
MaxNowDays == 1

\* endMs - now
Minus(a, b) ==
    IF a.ms >= b.ms THEN [d |-> a.d - b.d, ms |-> a.ms - b.ms]
    ELSE [d |-> a.d - b.d - 1, ms |-> a.ms - b.ms + MS_PER_DAY]

\* t <= 0
NotPositive(t) == t.d < 0 \/ (t.d = 0 /\ t.ms = 0)

\* t < days * MS_PER_DAY
Below(t, days) == t.d < days

\* a <= b
TimeLeq(a, b) == a.d < b.d \/ (a.d = b.d /\ a.ms <= b.ms)

computeMarketPhase_inclusive(endDate, now) ==
    IF endDate.kind = "null" THEN "early"
    ELSE IF endDate.kind = "invalid" THEN "early"
    ELSE LET remainingMs == Minus([d |-> endDate.d, ms |-> endDate.ms], now)
             AtMost(t, days) == t.d < days \/ (t.d = days /\ t.ms = 0)
         IN  IF NotPositive(remainingMs) THEN "near_resolution"
             ELSE IF AtMost(remainingMs, NEAR_RESOLUTION_THRESHOLD)
                  THEN "near_resolution"
             ELSE IF AtMost(remainingMs, LATE_THRESHOLD) THEN "late"
             ELSE IF AtMost(remainingMs, MID_THRESHOLD) THEN "mid"
             ELSE "early"

\* computeMarketPhase(endDate, now): endDate absent ("null"), a string that
\* does not parse ("invalid": getTime() is NaN) or a date
computeMarketPhase(endDate, now) ==
    IF endDate.kind = "null" THEN "early"
    ELSE IF endDate.kind = "invalid" THEN "early"
    ELSE LET remainingMs == Minus([d |-> endDate.d, ms |-> endDate.ms], now)
         IN  IF NotPositive(remainingMs) THEN "near_resolution"
             ELSE IF Below(remainingMs, NEAR_RESOLUTION_THRESHOLD)
                  THEN "near_resolution"
             ELSE IF Below(remainingMs, LATE_THRESHOLD) THEN "late"
             ELSE IF Below(remainingMs, MID_THRESHOLD) THEN "mid"
             ELSE "early"

\* the milliseconds within a day tried: the start of the day, one
\* millisecond past it, one millisecond before the next
DayMs == {0, 1, MS_PER_DAY - 1}

EndDates ==
    {[kind |-> "null", d |-> 0, ms |-> 0], [kind |-> "invalid", d |-> 0, ms |-> 0]}
    \cup [kind : {"date"}, d : 0..MaxDays, ms : DayMs]

Nows == [d : 0..MaxNowDays, ms : DayMs]

ComputeMarketPhase(endDate, now) ==
    /\ phaseCall' = [endDate |-> endDate, now |-> now,
                     phase |-> computeMarketPhase(endDate, now)]
    /\ UNCHANGED posCall
    /\ UNCHANGED <<dedupVars, watchVars, stopVars, noticeVars, pollVars,
                   hashVars, cacheVars, resolverVars, normVars, tableVars,
                   retryVars, restVars>>

NextPhase == \E endDate \in EndDates, now \in Nows : ComputeMarketPhase(endDate, now)

SpecPhase == InitPoll /\ [][NextPhase]_vars

\* how urgent a phase is
Urgency(phase) ==
    CASE phase = "early" -> 0
      [] phase = "mid" -> 1
      [] phase = "late" -> 2
      [] phase = "near_resolution" -> 3

\* the remaining time of the last call
Remaining(call) == Minus([d |-> call.endDate.d, ms |-> call.endDate.ms], call.now)

\* r < days, r >= days for a remaining time r and a whole number of days
Before(r, days) == r.d < days
AtOrAfter(r, days) == r.d >= days

-----------------------------------------------------------------------------
(* fetchExpertPosition (position-tracker.ts).  Amounts are whole numbers   *)
(* of 1e-7 token, one decimal more than the six that roundTo keeps, so     *)
(* that rounding has something to round.                                   *)

\* 1e-6 token, in units of 1e-7 token
Micro == 10

\* roundTo(value, 6): Math.round(value * 1e6) / 1e6
roundTo(value) == ((value + 5) \div Micro) * Micro

\* the default position
UNKNOWN_POSITION == [positionBefore |-> 0, positionAfter |-> 0]

\* the largest trade quantity tried, in 1e-6 token
MaxQuantity == 2
\* the most rows in a positions response
MaxRows == 2

\* upstream sizes: on the six-decimal grid (0, 10, 20) and off it
Sizes == {0, 4, 10, 16, 20}

OutcomeIndexes == {0, 1, 2}

PositionRows == [outcomeIndex : {0, 1}, size : Sizes]

RECURSIVE SeqsUpTo(_, _)
SeqsUpTo(S, n) ==
    IF n = 0 THEN {<<>>}
    ELSE SeqsUpTo(S, n - 1)
         \cup {Append(q, x) : q \in {r \in SeqsUpTo(S, n - 1) : Len(r) = n - 1},
                              x \in S}

\* what the positions request can give: an error after the retries, a body
\* that is no array, or rows
PositionResponses ==
    {[kind |-> "failed", rows |-> <<>>], [kind |-> "notArray", rows |-> <<>>]}
    \cup [kind : {"rows"}, rows : SeqsUpTo(PositionRows, MaxRows)]

\* positions.find(p => p.outcomeIndex === outcomeIndex)?.size ?? 0
SizeFound(rows, outcomeIndex) ==
    IF \E i \in 1..Len(rows) : rows[i].outcomeIndex = outcomeIndex
    THEN rows[CHOOSE i \in 1..Len(rows) :
                  /\ rows[i].outcomeIndex = outcomeIndex
                  /\ \A j \in 1..(i - 1) : rows[j].outcomeIndex # outcomeIndex].size
    ELSE 0

fetchExpertPosition_noFloor(response, outcomeIndex, side, quantity) ==
    IF response.kind # "rows" THEN UNKNOWN_POSITION
    ELSE LET positionAfter == SizeFound(response.rows, outcomeIndex)
             positionBefore == IF side = "BUY" THEN positionAfter - quantity
                               ELSE positionAfter + quantity
         IN  [positionBefore |-> roundTo(positionBefore),
              positionAfter |-> roundTo(positionAfter)]

\* fetchExpertPosition; quantity in units of 1e-7 token
fetchExpertPosition(response, outcomeIndex, side, quantity) ==
    IF response.kind # "rows" THEN UNKNOWN_POSITION
    ELSE LET positionAfter == SizeFound(response.rows, outcomeIndex)
             positionBefore == IF side = "BUY"
                               THEN MathMax(0, positionAfter - quantity)
                               ELSE positionAfter + quantity
         IN  [positionBefore |-> roundTo(positionBefore),
              positionAfter |-> roundTo(positionAfter)]

\* a call with the arguments and the upstream answer that Init drew
FetchExpertPosition ==
    /\ ~posCall.returned
    /\ posCall' = [posCall EXCEPT
                      !.returned = TRUE,
                      !.result = fetchExpertPosition(posCall.response,
                                     posCall.outcomeIndex, posCall.side,
                                     posCall.quantity)]
    /\ UNCHANGED phaseCall
    /\ UNCHANGED <<dedupVars, watchVars, stopVars, noticeVars, pollVars,
                   hashVars, cacheVars, resolverVars, normVars, tableVars,
                   retryVars, restVars>>

NextPosition == FetchExpertPosition

\* everything but the enrichers' own calls, as constructed
InitCore ==
    /\ store = {}
    /\ admittedEarlier = {}
    /\ InitVolatile({DefaultLruSize})
    /\ chain = <<>>
    /\ InitWatchersCore
    /\ InitPollAside
    /\ InitHashAside
    /\ InitResolverAside
    /\ InitNormalizerAside
    /\ InitTableAside

InitPosition ==
    /\ InitCore
    /\ InitRestAside
    /\ InitRetryAside
    /\ InitCacheAside
    /\ phaseCall = NoPhaseCall
    /\ posCall \in [response : PositionResponses, outcomeIndex : OutcomeIndexes,
                     side : {"BUY", "SELL"},
                     quantity : {q * Micro : q \in 0..MaxQuantity},
                     returned : {FALSE}, result : {UNKNOWN_POSITION}]

SpecPosition == InitPosition /\ [][NextPosition]_vars

\* the size of the first row for the outcome index of the last call
UpstreamSize(call) == SizeFound(call.response.rows, call.outcomeIndex)

\* C28 as written: fetchExpertPosition returns after = the size of the
\* upstream row with the requested outcome index (0 if none), before =
\* max(0, after - quantity) for a BUY and after + quantity for a SELL, and
\* {before: 0, after: 0} when the request fails.
C28_PositionUnrounded ==
    posCall.returned =>
        IF posCall.response.kind # "rows"
        THEN posCall.result = UNKNOWN_POSITION
        ELSE /\ posCall.result.positionAfter = UpstreamSize(posCall)
             /\ posCall.side = "BUY" =>
                   posCall.result.positionBefore
                       = MathMax(0, UpstreamSize(posCall) - posCall.quantity)
             /\ posCall.side = "SELL" =>
                   posCall.result.positionBefore
                       = UpstreamSize(posCall) + posCall.quantity

\* the nearest multiple of 1e-6 to a value that is not halfway between two
Nearest(value) ==
    CHOOSE n \in {k * Micro : k \in 0..(value \div Micro + 1)} :
        2 * (IF n >= value THEN n - value ELSE value - n) < Micro

\* C28 (amended): fetchExpertPosition always returns a position: after is
\* the size of the first upstream row with the requested outcome index (0
\* if there is none) rounded to six decimals; before is max(0, size -
\* quantity) for a BUY and size + quantity for a SELL, rounded to six
\* decimals; it is {before: 0, after: 0} whenever the request fails or its
\* body is no array; before >= 0 and after >= 0.
C28_PositionRounded ==
    posCall.returned =>
        /\ posCall.result.positionBefore >= 0
        /\ posCall.result.positionAfter >= 0
        /\ IF posCall.response.kind # "rows"
           THEN posCall.result = UNKNOWN_POSITION
           ELSE /\ posCall.result.positionAfter = Nearest(UpstreamSize(posCall))
                /\ posCall.side = "BUY" =>
                      posCall.result.positionBefore
                          = Nearest(MathMax(0, UpstreamSize(posCall)
                                                  - posCall.quantity))
                /\ posCall.side = "SELL" =>
                      posCall.result.positionBefore
                          = Nearest(UpstreamSize(posCall) + posCall.quantity)

\* a BUY of 2e-6 token against an upstream size of 1.6e-6 for outcome 1,
\* listed after a row for outcome 0: after is 2e-6 and before is 0
C28_Witness ==
    /\ posCall.returned
    /\ posCall.side = "BUY"
    /\ posCall.outcomeIndex = 1
    /\ posCall.quantity = 2 * Micro
    /\ posCall.response.kind = "rows"
    /\ Len(posCall.response.rows) = 2
    /\ posCall.response.rows[1].outcomeIndex = 0
    /\ posCall.response.rows[2] = [outcomeIndex |-> 1, size |-> 16]
    /\ posCall.result = [positionBefore |-> 0, positionAfter |-> 20]

-----------------------------------------------------------------------------
(* SignalNormalizer.normalize (signal-normalizer.ts): decode, resolve the  *)
(* market, then the liquidity and position fetches side by side.  One call *)
(* is followed from its start to its return.                               *)

\* MarketCache defaults, the ones SignalNormalizer constructs its cache with
DefaultTtlMs == 300000
DefaultMaxSize == 500

\* the most normalize() calls followed
MaxCalls == 2

\* the raw detections tried: amounts in base units of 1e-6
RawEvents ==
    [expertSide : {"maker", "taker"}, makerAssetId : {"0", "A", "C"},
     takerAssetId : {"0", "A", "C"}, makerAmountFilled : {0, MaxQuantity},
     takerAmountFilled : {1}]

\* 1, in units of 1e-6
One == 1000000

\* roundTo(usdc / token, 6), in units of 1e-6
PriceOf(usdcAmount, tokenAmount) ==
    IF tokenAmount > 0
    THEN (2 * usdcAmount * One + tokenAmount) \div (2 * tokenAmount)
    ELSE 0

MathMin(a, b) == IF a <= b THEN a ELSE b

clamp(value, min, max) == MathMin(MathMax(value, min), max)

\* decodeTrade: price and impliedProbability in units of 1e-6, quantity in
\* units of 1e-7 token
decodeTrade(raw) ==
    LET isMaker == raw.expertSide = "maker"
        expertGivesAssetId == IF isMaker THEN raw.makerAssetId ELSE raw.takerAssetId
        expertGivesAmount ==
            IF isMaker THEN raw.makerAmountFilled ELSE raw.takerAmountFilled
        expertReceivesAssetId ==
            IF isMaker THEN raw.takerAssetId ELSE raw.makerAssetId
        expertReceivesAmount ==
            IF isMaker THEN raw.takerAmountFilled ELSE raw.makerAmountFilled
        isBuying == expertGivesAssetId = "0"
        usdcAmount == IF isBuying THEN expertGivesAmount ELSE expertReceivesAmount
        tokenAmount == IF isBuying THEN expertReceivesAmount ELSE expertGivesAmount
        outcomeTokenId ==
            IF isBuying THEN expertReceivesAssetId ELSE expertGivesAssetId
        price == PriceOf(usdcAmount, tokenAmount)
    IN  [side |-> IF isBuying THEN "BUY" ELSE "SELL",
         price |-> price,
         quantity |-> tokenAmount * Micro,
         impliedProbability |->
             clamp(IF isBuying THEN price ELSE One - price, 0, One),
         outcomeTokenId |-> outcomeTokenId]

\* metadata.endDate of each market
EndDateOf ==
    [m1 |-> [kind |-> "null", d |-> 0, ms |-> 0],
     m2 |-> [kind |-> "invalid", d |-> 0, ms |-> 0],
     m3 |-> [kind |-> "date", d |-> 7, ms |-> 0]]

\* the positions answers tried inside normalize
SomePositionResponses ==
    {[kind |-> "failed", rows |-> <<>>],
     [kind |-> "rows", rows |-> <<>>],
     [kind |-> "rows", rows |-> <<[outcomeIndex |-> 0, size |-> 16]>>],
     [kind |-> "rows", rows |-> <<[outcomeIndex |-> 1, size |-> 10]>>]}

onUnresolved_noCount(errors) == errors

\* "if (!resolved)": this._errors++
onUnresolved(errors) == errors + 1

startFetches_inTurn(tokenId) == [liquidity |-> "pending", position |-> "none"]

\* Promise.all([fetchLiquiditySnapshot(...), fetchExpertPosition(...)]): both
\* calls are made before the await; fetchLiquiditySnapshot answers at once,
\* without a request, for an empty token id or '0'
startFetches(tokenId) ==
    [liquidity |-> IF tokenId \in {"", "0"} THEN "EMPTY_SNAPSHOT" ELSE "pending",
     position |-> "pending"]

\* the call as it begins
Began(raw) ==
    [NoNormalize EXCEPT
        !.id = normalizedCount + errorCount + 1,
        !.decoded = decodeTrade(raw),
        !.normalizedBefore = normalizedCount,
        !.errorsBefore = errorCount,
        !.emittedBefore = nzEmitted.count]

\* normalize after resolve() has answered: absent ends the call, a market
\* starts the two fetches
AfterResolve(call, metadata, outcome, outcomeIndex) ==
    IF metadata = "null"
    THEN /\ errorCount' = onUnresolved(errorCount)
         /\ nzReturned' = [kind |-> "null", value |-> NoTrade]
         /\ nzPc' = "idle"
         /\ nzCall' = call
         /\ UNCHANGED <<normalizedCount, nzEmitted>>
    ELSE /\ nzPc' = "fetching"
         /\ nzCall' = [call EXCEPT
                         !.resolved = metadata,
                         !.outcome = outcome,
                         !.outcomeIndex = outcomeIndex,
                         !.marketPhase = computeMarketPhase(EndDateOf[metadata],
                                             [d |-> 0, ms |-> mcNow]),
                         !.liquidity =
                             startFetches(call.decoded.outcomeTokenId).liquidity,
                         !.position =
                             startFetches(call.decoded.outcomeTokenId).position,
                         !.liquidityCalls =
                             IF startFetches(call.decoded.outcomeTokenId).liquidity
                                    = "pending" THEN 1 ELSE 0,
                         !.positionCalls =
                             IF startFetches(call.decoded.outcomeTokenId).position
                                    = "pending" THEN 1 ELSE 0]
         /\ UNCHANGED <<normalizedCount, errorCount, nzEmitted, nzReturned>>

\* normalize(raw) up to its first await that has to wait
Normalize(raw) ==
    /\ nzPc = "idle"
    /\ normalizedCount + errorCount < MaxCalls
    /\ LET call == Began(raw)
           tokenId == call.decoded.outcomeTokenId
       IN  IF tokenId = "0"
           THEN /\ ResolveCollateralStep
                /\ AfterResolve(call, "null", "", 0)
           ELSE /\ ResolveStartStep(tokenId)
                /\ IF rsPending' # ""
                   THEN /\ nzPc' = "resolving"
                        /\ nzCall' = call
                        /\ UNCHANGED <<normalizedCount, errorCount, nzEmitted,
                                       nzReturned>>
                   ELSE AfterResolve(call, rsLast'.result, rsLast'.outcome,
                                     rsLast'.outcomeIndex)
    /\ UNCHANGED <<dedupVars, watchVars, stopVars, noticeVars, pollVars,
                   hashVars, fnVars, tableVars, retryVars, restVars>>

\* the Gamma lookup answers
NormalizeResolved(response) ==
    /\ nzPc = "resolving"
    /\ ResolveFinishStep(response)
    /\ AfterResolve(nzCall, rsLast'.result, rsLast'.outcome,
                    rsLast'.outcomeIndex)
    /\ UNCHANGED <<dedupVars, watchVars, stopVars, noticeVars, pollVars,
                   hashVars, fnVars, tableVars, retryVars, restVars>>

\* fetchLiquiditySnapshot ends: with the parsed book, or, after a failure,
\* with EMPTY_SNAPSHOT
LiquiditySettles(ok) ==
    /\ nzPc = "fetching"
    /\ nzCall.liquidity = "pending"
    /\ nzCall' = [nzCall EXCEPT
                    !.liquidity = IF ok THEN "snapshot" ELSE "EMPTY_SNAPSHOT",
                    !.settled = Append(@, "liquidity")]
    /\ UNCHANGED <<nzPc, normalizedCount, errorCount, nzEmitted, nzReturned>>
    /\ UNCHANGED <<dedupVars, watchVars, stopVars, noticeVars, pollVars,
                   hashVars, cacheVars, resolverVars, fnVars, tableVars,
                   retryVars, restVars>>

\* fetchExpertPosition ends
PositionSettles(response) ==
    /\ nzPc = "fetching"
    /\ nzCall.position = "pending"
    /\ nzCall' = [nzCall EXCEPT
                    !.position = IF response.kind = "rows" THEN "position"
                                 ELSE "UNKNOWN_POSITION",
                    !.positionValue =
                        fetchExpertPosition(response, nzCall.outcomeIndex,
                            nzCall.decoded.side, nzCall.decoded.quantity),
                    !.settled = Append(@, "position")]
    /\ UNCHANGED <<nzPc, normalizedCount, errorCount, nzEmitted, nzReturned>>
    /\ UNCHANGED <<dedupVars, watchVars, stopVars, noticeVars, pollVars,
                   hashVars, cacheVars, resolverVars, fnVars, tableVars,
                   retryVars, restVars>>

\* the NormalizedTrade assembled from a call
Assembled(call) ==
    [expertTradeId |-> call.id, marketId |-> call.resolved,
     outcome |-> call.outcome, side |-> call.decoded.side,
     quantity |-> call.decoded.quantity, price |-> call.decoded.price,
     impliedProbability |-> call.decoded.impliedProbability,
     marketPhase |-> call.marketPhase, liquiditySnapshot |-> call.liquidity,
     expertPositionBefore |-> call.positionValue.positionBefore,
     expertPositionAfter |-> call.positionValue.positionAfter]

\* Promise.all has both results: the record is assembled, counted,
\* published (index.ts listens with an empty handler) and returned
NormalizeAssemble ==
    /\ nzPc = "fetching"
    /\ nzCall.liquidity \notin {"none", "pending"}
    /\ nzCall.position \notin {"none", "pending"}
    /\ \E normalized \in {Assembled(nzCall)} :
          /\ normalizedCount' = normalizedCount + 1
          /\ nzEmitted' = [count |-> nzEmitted.count + 1, last |-> normalized]
          /\ nzReturned' = [kind |-> "record", value |-> normalized]
    /\ nzPc' = "idle"
    /\ UNCHANGED <<nzCall, errorCount>>
    /\ UNCHANGED <<dedupVars, watchVars, stopVars, noticeVars, pollVars,
                   hashVars, cacheVars, resolverVars, fnVars, tableVars,
                   retryVars, restVars>>

NextNormalizer ==
    \/ \E raw \in RawEvents : Normalize(raw)
    \/ \E response \in Responses : NormalizeResolved(response)
    \/ \E ok \in BOOLEAN : LiquiditySettles(ok)
    \/ \E response \in SomePositionResponses : PositionSettles(response)
    \/ NormalizeAssemble

InitNormalizer ==
    /\ InitCore
    /\ InitRestAside
    /\ InitFnAside
    /\ InitRetryAside
    /\ mcCache = <<>>
    /\ mcMaxSize = DefaultMaxSize
    /\ mcTtl = DefaultTtlMs
    /\ mcNow = 0
    /\ mcLast = NoCacheCall
    /\ mcRecency = <<>>

SpecNormalizer == InitNormalizer /\ [][NextNormalizer]_vars

\* the last normalize() has returned and its market did not resolve
ReturnedUnresolved == nzPc = "idle" /\ nzCall.id > 0 /\ nzCall.resolved = "null"

\* C25: when market resolution fails (the lookup raises or gives up, gives
\* no rows, or the token is the collateral token) normalize returns absent,
\* the error counter is up by exactly 1, the success counter is unchanged,
\* no 'normalized' notification was published and neither the liquidity nor
\* the position service was called for that detection.
C25_UnresolvedCountsOneError ==
    /\ ReturnedUnresolved =>
          /\ nzReturned.kind = "null"
          /\ errorCount = nzCall.errorsBefore + 1
          /\ normalizedCount = nzCall.normalizedBefore
          /\ nzEmitted.count = nzCall.emittedBefore
          /\ nzCall.liquidityCalls = 0 /\ nzCall.positionCalls = 0
          /\ nzCall.liquidity = "none" /\ nzCall.position = "none"
    /\ (nzPc = "idle" /\ nzCall.id > 0
          /\ (nzCall.decoded.outcomeTokenId = "0"
                \/ (rsLast.tokenId = nzCall.decoded.outcomeTokenId
                      /\ rsLast.lookups = 1
                      /\ rsLast.response \in {"error", "empty"})))
           => ReturnedUnresolved

\* the second detection's lookup found no rows, after a first detection was
\* normalized: one error, one success, one notification
C25_Witness ==
    /\ ReturnedUnresolved
    /\ rsLast.response = "empty"
    /\ rsLast.tokenId = nzCall.decoded.outcomeTokenId
    /\ nzCall.id = 2
    /\ errorCount = 1
    /\ normalizedCount = 1
    /\ nzEmitted.count = 1

\* the last normalize() has returned and its market resolved
ReturnedResolved == nzPc = "idle" /\ nzCall.id > 0 /\ nzCall.resolved # "null"

\* C26: for a detection whose market resolves, the liquidity fetch and the
\* position fetch are both under way before either has ended; the record is
\* assembled only after both have ended, whichever ended first; exactly one
\* 'normalized' notification carrying that record is published and that
\* record is returned; the success counter is up by exactly 1; a fetch that
\* fails puts its default value in the record and the record is still made.
C26_BothFetchesThenOneRecord ==
    /\ nzPc = "fetching" =>
          /\ nzCall.liquidity # "none" /\ nzCall.position # "none"
          /\ nzCall.settled = <<>> =>
                nzCall.liquidity = "pending" /\ nzCall.position = "pending"
          /\ normalizedCount = nzCall.normalizedBefore
          /\ nzEmitted.count = nzCall.emittedBefore
    /\ ReturnedResolved =>
          /\ Len(nzCall.settled) = 2
          /\ {nzCall.settled[1], nzCall.settled[2]} = {"liquidity", "position"}
          /\ nzCall.liquidityCalls = 1 /\ nzCall.positionCalls = 1
          /\ nzReturned.kind = "record"
          /\ nzReturned.value = Assembled(nzCall)
          /\ nzEmitted.count = nzCall.emittedBefore + 1
          /\ nzEmitted.last = nzReturned.value
          /\ normalizedCount = nzCall.normalizedBefore + 1
          /\ errorCount = nzCall.errorsBefore
          /\ nzReturned.value.liquiditySnapshot \in {"snapshot", "EMPTY_SNAPSHOT"}
          /\ nzCall.position = "UNKNOWN_POSITION" =>
                /\ nzReturned.value.expertPositionBefore = 0
                /\ nzReturned.value.expertPositionAfter = 0

\* the position fetch ended first and found 1.6e-6 token, the liquidity
\* fetch ended second and had failed: the record carries the empty snapshot
\* and the position
C26_Witness ==
    /\ ReturnedResolved
    /\ nzCall.settled = <<"position", "liquidity">>
    /\ nzReturned.value.liquiditySnapshot = "EMPTY_SNAPSHOT"
    /\ nzReturned.value.expertPositionAfter = 20
    /\ nzEmitted.last = nzReturned.value

-----------------------------------------------------------------------------
(* EventStore.getUnprocessedEvents (event-store.ts) over table raw_events  *)
(* (database.ts).  block_number is a TEXT column: a row holds the decimal  *)
(* digits that serializeEvent wrote.                                       *)

\* the block numbers and log indexes of the events tried
BlockNumbers == {2, 9, 10}
LogIndexes == {0, 1}

\* the most rows stored
MaxStored == 3
\* the largest limit asked for
MaxLimit == 3

\* serializeEvent: blockNumber.toString()
serializeEvent(event) ==
    [id |-> event.id, blockNumber |-> IntChars(event.blockNumber),
     logIndex |-> event.logIndex]

\* BigInt(text) for a string of decimal digits
RECURSIVE BigIntOf(_)
BigIntOf(chars) ==
    IF chars = <<>> THEN 0
    ELSE 10 * BigIntOf(SubSeq(chars, 1, Len(chars) - 1))
         + (charCodeAt(chars[Len(chars)]) - 48)

\* deserializeEvent: BigInt(row.blockNumber)
deserializeEvent(row) ==
    [id |-> row.id, blockNumber |-> BigIntOf(row.blockNumber),
     logIndex |-> row.logIndex]

\* SQLite's order of two TEXT values (BINARY collation): byte by byte, a
\* proper prefix first
RECURSIVE TextLess(_, _)
TextLess(a, b) ==
    IF b = <<>> THEN FALSE
    ELSE IF a = <<>> THEN TRUE
    ELSE IF charCodeAt(Head(a)) # charCodeAt(Head(b))
         THEN charCodeAt(Head(a)) < charCodeAt(Head(b))
    ELSE TextLess(Tail(a), Tail(b))

\* ORDER BY block_number ASC, log_index ASC
OrderedBefore(r, s) ==
    \/ TextLess(r.blockNumber, s.blockNumber)
    \/ r.blockNumber = s.blockNumber /\ r.logIndex < s.logIndex

RECURSIVE OrderBy(_)
OrderBy(rows) ==
    IF rows = {} THEN <<>>
    ELSE LET first == CHOOSE r \in rows :
                          \A s \in rows \ {r} : OrderedBefore(r, s)
         IN  <<first>> \o OrderBy(rows \ {first})

\* unprocessedStmt: WHERE processed_at IS NULL ORDER BY ... LIMIT ?
unprocessedStmt(table, limit) ==
    LET ordered == OrderBy({r \in table : ~r.processed})
    IN  SubSeq(ordered, 1, Min(limit, Len(ordered)))

\* getUnprocessedEvents(limit)
getUnprocessedEvents(table, limit) ==
    LET rows == unprocessedStmt(table, limit)
    IN  [i \in 1..Len(rows) |->
            deserializeEvent([id |-> rows[i].id,
                              blockNumber |-> rows[i].blockNumber,
                              logIndex |-> rows[i].logIndex])]

\* the events tried: one per block number and log index
StoredEvents ==
    {[id |-> <<b, l>>, blockNumber |-> b, logIndex |-> l] :
        b \in BlockNumbers, l \in LogIndexes}

\* insertEvent: INSERT OR IGNORE
InsertEvent(event) ==
    /\ Cardinality(rawEvents) < MaxStored
    /\ rawEvents' =
          IF \E r \in rawEvents : r.id = event.id THEN rawEvents
          ELSE rawEvents \cup
                   {[id |-> serializeEvent(event).id,
                     blockNumber |-> serializeEvent(event).blockNumber,
                     logIndex |-> serializeEvent(event).logIndex,
                     processed |-> FALSE]}
    /\ esListing' = [esListing EXCEPT !.fresh = FALSE]
    /\ UNCHANGED <<dedupVars, watchVars, stopVars, noticeVars, pollVars,
                   hashVars, cacheVars, resolverVars, normVars, fnVars,
                   retryVars, restVars>>

\* markProcessed(eventId): UPDATE ... SET processed_at = Date.now()
MarkProcessed(eventId) ==
    /\ rawEvents' = {IF r.id = eventId THEN [r EXCEPT !.processed = TRUE] ELSE r :
                        r \in rawEvents}
    /\ esListing' = [esListing EXCEPT
                       !.fresh = FALSE,
                       !.marked = IF \E r \in rawEvents : r.id = eventId
                                  THEN @ \cup {eventId} ELSE @]
    /\ UNCHANGED <<dedupVars, watchVars, stopVars, noticeVars, pollVars,
                   hashVars, cacheVars, resolverVars, normVars, fnVars,
                   retryVars, restVars>>

GetUnprocessedEvents(limit) ==
    /\ esListing' = [esListing EXCEPT
                       !.limit = limit,
                       !.rows = getUnprocessedEvents(rawEvents, limit),
                       !.fresh = TRUE]
    /\ UNCHANGED rawEvents
    /\ UNCHANGED <<dedupVars, watchVars, stopVars, noticeVars, pollVars,
                   hashVars, cacheVars, resolverVars, normVars, fnVars,
                   retryVars, restVars>>

NextListing ==
    \/ \E event \in StoredEvents : InsertEvent(event)
    \/ \E event \in StoredEvents : MarkProcessed(event.id)
    \/ \E limit \in 0..MaxLimit : GetUnprocessedEvents(limit)

SpecListing == InitPoll /\ [][NextListing]_vars

\* C29: getUnprocessedEvents(limit) returns at most limit rows, none of
\* them marked processed (now or at any earlier time), in ascending order of
\* (block number, log index) with the block numbers compared as integers,
\* whatever block numbers are stored.
C29_ListingSortedByBlockInteger ==
    esListing.fresh =>
        /\ Len(esListing.rows) <= esListing.limit
        /\ \A i \in 1..Len(esListing.rows) :
              /\ esListing.rows[i].id \notin esListing.marked
              /\ \E r \in rawEvents :
                    r.id = esListing.rows[i].id /\ ~r.processed
        /\ \A i, j \in 1..Len(esListing.rows) :
              i < j =>
                  \/ esListing.rows[i].blockNumber < esListing.rows[j].blockNumber
                  \/ /\ esListing.rows[i].blockNumber = esListing.rows[j].blockNumber
                     /\ esListing.rows[i].logIndex <= esListing.rows[j].logIndex

-----------------------------------------------------------------------------
(* withRetry (retry.ts): the loop, one step per await.                     *)

\* the largest maxAttempts tried
MaxAttempts == 4

\* DEFAULT_OPTIONS: the delays, in milliseconds, and the jitter in percent
baseDelayMs == 1000
maxDelayMs == 30000
jitterPercent == 30

\* Math.random(), in hundredths
Randoms == {0, 50, 99}

\* 2 to the power k
RECURSIVE Pow2(_)
Pow2(k) == IF k = 0 THEN 1 ELSE 2 * Pow2(k - 1)

\* calculateDelay(attempt, options) for a value of Math.random()
calculateDelay(attempt, random) ==
    LET exponential == baseDelayMs * Pow2(attempt - 1)
        capped == Min(exponential, maxDelayMs)
    IN  (capped * 10000 + capped * jitterPercent * random) \div 10000

\* what one attempt can do: fulfil with a value or reject with an error
Settlements ==
    [ok : {TRUE}, value : {"v1", "v2"}] \cup [ok : {FALSE}, value : {"e1", "e2"}]

isFinalAttempt_never(attempt, maxAttempts) == FALSE

\* "if (attempt === options.maxAttempts) break"
isFinalAttempt(attempt, maxAttempts) == attempt = maxAttempts

\* withRetry(fn, opts) is called: the loop is entered, or, with no attempt
\* allowed, left at once for "throw lastError"
WithRetry ==
    /\ rtPc = "idle"
    /\ rtAttempt' = 1
    /\ IF 1 <= rtOptions.maxAttempts
       THEN rtPc' = "calling" /\ UNCHANGED rtOutcome
       ELSE rtPc' = "raised" /\ rtOutcome' = rtLastError
    /\ UNCHANGED <<rtOptions, rtLastError, rtDelay, rtLog>>
    /\ UNCHANGED <<dedupVars, watchVars, stopVars, noticeVars, pollVars,
                   hashVars, cacheVars, resolverVars, normVars, fnVars,
                   tableVars, restVars>>

\* "return await fn()": the attempt settles
AttemptSettles(settlement, random) ==
    /\ rtPc = "calling"
    /\ IF settlement.ok
       THEN /\ rtPc' = "returned"
            /\ rtOutcome' = settlement.value
            /\ rtLog' = Append(rtLog, "ok")
            /\ UNCHANGED <<rtLastError, rtDelay>>
       ELSE /\ rtLastError' = settlement.value
            /\ IF isFinalAttempt(rtAttempt, rtOptions.maxAttempts)
               THEN /\ rtPc' = "raised"
                    /\ rtOutcome' = settlement.value
                    /\ rtLog' = Append(rtLog, "fail")
                    /\ UNCHANGED rtDelay
               ELSE /\ rtPc' = "sleeping"
                    /\ rtDelay' = calculateDelay(rtAttempt, random)
                    /\ rtLog' = Append(rtLog, "fail") \o <<"sleep">>
                    /\ UNCHANGED rtOutcome
    /\ UNCHANGED <<rtOptions, rtAttempt>>
    /\ UNCHANGED <<dedupVars, watchVars, stopVars, noticeVars, pollVars,
                   hashVars, cacheVars, resolverVars, normVars, fnVars,
                   tableVars, restVars>>

\* the sleep ends: attempt++ and the loop test
SleepEnds ==
    /\ rtPc = "sleeping"
    /\ rtAttempt' = rtAttempt + 1
    /\ IF rtAttempt + 1 <= rtOptions.maxAttempts
       THEN rtPc' = "calling" /\ UNCHANGED rtOutcome
       ELSE rtPc' = "raised" /\ rtOutcome' = rtLastError
    /\ UNCHANGED <<rtOptions, rtLastError, rtDelay, rtLog>>
    /\ UNCHANGED <<dedupVars, watchVars, stopVars, noticeVars, pollVars,
                   hashVars, cacheVars, resolverVars, normVars, fnVars,
                   tableVars, restVars>>

NextRetry ==
    \/ WithRetry
    \/ \E settlement \in Settlements, random \in Randoms :
          AttemptSettles(settlement, random)
    \/ SleepEnds

InitRetry ==
    /\ InitCore
    /\ InitRestAside
    /\ InitCacheAside
    /\ InitFnAside
    /\ rtPc = "idle"
    /\ rtOptions \in [maxAttempts : 0..MaxAttempts]
    /\ rtAttempt = 0
    /\ rtLastError = "undefined"
    /\ rtDelay = 0
    /\ rtLog = <<>>
    /\ rtOutcome = ""

\* the wrapped call settles (the callers give fetch a timeout) and the
\* timer of sleep fires
FairSpecRetry == InitRetry /\ [][NextRetry]_vars /\ WF_vars(NextRetry)

\* attempts made so far
Calls == Len(SelectSeq(rtLog, LAMBDA e : e # "sleep"))

Sleeps == Len(SelectSeq(rtLog, LAMBDA e : e = "sleep"))

\* how withRetry stands, at every moment
RetryShape ==
    /\ Calls <= rtOptions.maxAttempts
    /\ \A i \in 1..Len(rtLog) :
          /\ rtLog[i] = "ok" => i = Len(rtLog) /\ rtPc = "returned"
          /\ rtLog[i] = "sleep" => i > 1 /\ rtLog[i - 1] = "fail"
          /\ (rtLog[i] = "fail" /\ i < Len(rtLog)) => rtLog[i + 1] = "sleep"
          /\ (rtLog[i] = "sleep" /\ i < Len(rtLog)) => rtLog[i + 1] # "sleep"
    /\ rtPc = "returned" =>
          /\ rtLog[Len(rtLog)] = "ok"
          /\ Sleeps = Calls - 1
    /\ rtPc = "raised" =>
          /\ Calls = rtOptions.maxAttempts
          /\ \A i \in 1..Len(rtLog) : rtLog[i] # "ok"
          /\ Calls > 0 =>
                /\ rtLog[Len(rtLog)] = "fail"
                /\ rtOutcome = rtLastError
                /\ Sleeps = Calls - 1
    /\ rtPc = "sleeping" => rtDelay >= baseDelayMs /\ Calls < rtOptions.maxAttempts

\* C30: withRetry makes at most maxAttempts attempts, returns the result of
\* the first attempt that succeeds and makes no attempt after it, raises the
\* error of the last attempt once maxAttempts attempts in a row have
\* failed, sleeps exactly once between two consecutive attempts and not
\* after the last failed one, and always comes to an end.
C30_RetryBoundedAndEnds == []RetryShape /\ <>(rtPc \in {"returned", "raised"})

\* three attempts allowed: two failures, each followed by one sleep, then a
\* success whose value is returned
C30_Witness ==
    /\ rtOptions.maxAttempts = 3
    /\ rtLog = <<"fail", "sleep", "fail", "sleep", "ok">>
    /\ rtPc = "returned"
    /\ rtOutcome = "v2"
    /\ rtLastError = "e1"

-----------------------------------------------------------------------------
(* Claims about the order of OnChainWatcher.start().                        *)

\* start() is inside backfillMissedBlocks: at getBlockNumber or in a chunk
InStartBackfill == ocTask.kind = "start" /\ ocTask.pc \in {"head", "chunk"}

\* both exchanges are subscribed on the newest WebSocket client
BothSubscribed(handles, open, gen) ==
    \A i \in 1..Len(Exchanges) :
        /\ [gen |-> gen, exchange |-> Exchanges[i]] \in handles
        /\ [gen |-> gen, exchange |-> Exchanges[i], errored |-> FALSE] \in open

\* C31: OnChainWatcher.start() backfills, then opens the subscriptions, then
\* is running: during the whole backfill the state is 'starting' and no
\* subscription is open; start() resolves only with the backfill returned,
\* both exchanges subscribed and the state 'running', and the state is
\* 'running' only with a handle for each exchange; when a step raises, the
\* state becomes 'failed', the error counter goes up by one with one error
\* notification, no subscription was opened, and start() rejects.
C31_StartOrder ==
    /\ [](InStartBackfill =>
             (ocState = "starting" /\ subs = {} /\ unwatchFns = {} /\
              ocStartResult = "none"))
    /\ [](ocState = "running" =>
             \A i \in 1..Len(Exchanges) :
                 \E h \in unwatchFns : h.exchange = Exchanges[i])
    /\ [][/\ (ocStartResult = "none" /\ ocStartResult' = "ok") =>
                 /\ ocTask' = NoTask
                 /\ ocState' = "running"
                 /\ subs = {}
                 /\ BothSubscribed(unwatchFns', subs', wsGen')
                 /\ ocErrorCount' = ocErrorCount
                 /\ orchErrorEvents' = orchErrorEvents
          /\ (ocStartResult = "none" /\ ocStartResult' = "failed") =>
                 /\ ocTask' = NoTask
                 /\ ocState' = "failed"
                 /\ ocErrorCount' = ocErrorCount + 1
                 /\ orchErrorEvents' = orchErrorEvents + 1
                 /\ subs' = {} /\ unwatchFns' = {}]_vars

\* start() has resolved after a backfill of the block behind the recorded
\* one: the watcher is running with both subscriptions open
C31_Witness ==
    /\ ocStartResult = "ok"
    /\ recordedAtStart = 1
    /\ Len(chain) = 2
    /\ ocState = "running"
    /\ BothSubscribed(unwatchFns, subs, wsGen)

-----------------------------------------------------------------------------
(* OnChainWatcher.backfillMissedBlocks and backfillExchange on their own:   *)
(* one call, from a store of earlier runs, against a chain head.            *)

\* the largest chain head the RPC node answers with
MaxHead == 6

chunkEnd_noClamp(cursor, toBlock) == cursor + MAX_BLOCK_RANGE - 1

\* backfillExchange: the last block of the chunk that starts at cursor
chunkEnd(cursor, toBlock) ==
    IF cursor + MAX_BLOCK_RANGE - 1 > toBlock
    THEN toBlock
    ELSE cursor + MAX_BLOCK_RANGE - 1

\* the store as earlier runs left it: empty, or on-chain rows up to a block
BackfillStores ==
    { {RowOfEvent(ChainOnChainEvent[b]) : b \in 1..n} : n \in 0..MaxBlock }

InitBackfill ==
    /\ store \in BackfillStores
    /\ admittedEarlier = {r.id : r \in store}
    /\ InitVolatile({DefaultLruSize})
    /\ chain = <<>>
    /\ InitWatchersCore
    /\ InitPollAside
    /\ InitHashAside
    /\ InitCacheAside
    /\ InitResolverAside
    /\ InitNormalizerAside
    /\ InitFnAside
    /\ InitTableAside
    /\ InitRetryAside
    /\ bfPc = "idle"
    /\ bfHead \in 0..MaxHead
    /\ bfTask = NoBackfill
    /\ bfQueries = <<>>
    /\ InitTimestampAside
    /\ delayCall = NoDelayCall
    /\ InitLifecycleAside
    /\ storeFailures = {}
    /\ rowCall = NoRowCall

PipelineFrame ==
    UNCHANGED <<dedupVars, watchVars, stopVars, noticeVars, pollVars,
                hashVars, cacheVars, resolverVars, normVars, fnVars,
                tableVars, retryVars>>

\* backfillMissedBlocks up to getBlockNumber: without an on-chain row in the
\* store it returns at once
BackfillMissedBlocks ==
    /\ bfPc = "idle"
    /\ LET lastBlock == getLatestBlockNumber(store)
       IN  /\ bfTask' = [bfTask EXCEPT !.lastBlock = lastBlock]
           /\ bfPc' = IF lastBlock = 0 THEN "returned" ELSE "head"
    /\ UNCHANGED <<bfHead, bfQueries>>
    /\ UNCHANGED <<timestampVars, delayCall, lifecycleVars, storeFailures,
                   rowCall>>
    /\ PipelineFrame

\* withRetry(getBlockNumber) settles: rejected, backfillMissedBlocks raises;
\* fulfilled, it returns when fromBlock is past the head and else enters
\* backfillExchange for the first contract
GetBlockNumberSettles(ok) ==
    /\ bfPc = "head"
    /\ LET currentBlock == bfHead
           fromBlock == bfTask.lastBlock + 1
       IN  IF ~ok THEN bfPc' = "raised" /\ UNCHANGED bfTask
           ELSE IF fromBlock > currentBlock
           THEN bfPc' = "returned" /\ UNCHANGED bfTask
           ELSE /\ bfPc' = "maker"
                /\ bfTask' = [bfTask EXCEPT !.from = fromBlock,
                                            !.to = currentBlock,
                                            !.ex = 1, !.cursor = fromBlock]
    /\ UNCHANGED <<bfHead, bfQueries>>
    /\ UNCHANGED <<timestampVars, delayCall, lifecycleVars, storeFailures,
                   rowCall>>
    /\ PipelineFrame

\* cursor = chunkEnd + 1 and the loop test; after the last chunk of the
\* first contract backfillExchange is called for the second
Advance(task) ==
    LET next == chunkEnd(task.cursor, task.to) + 1
    IN  IF next <= task.to
        THEN /\ bfPc' = "maker"
             /\ bfTask' = [task EXCEPT !.cursor = next]
        ELSE IF task.ex < Len(Exchanges)
        THEN /\ bfPc' = "maker"
             /\ bfTask' = [task EXCEPT !.ex = task.ex + 1, !.cursor = task.from]
        ELSE /\ bfPc' = "returned"
             /\ bfTask' = [task EXCEPT !.cursor = next]

Query(filter, ok) ==
    [exchange |-> Exchanges[bfTask.ex], filter |-> filter,
     fromBlock |-> bfTask.cursor,
     toBlock |-> chunkEnd(bfTask.cursor, bfTask.to), ok |-> ok]

\* the maker-filter getContractEvents of the chunk settles: rejected after
\* its retries, the catch logs the chunk and the cursor moves on
MakerSettles(ok) ==
    /\ bfPc = "maker"
    /\ bfQueries' = Append(bfQueries, Query("maker", ok))
    /\ IF ok THEN bfPc' = "taker" /\ UNCHANGED bfTask
       ELSE Advance(bfTask)
    /\ UNCHANGED bfHead
    /\ UNCHANGED <<timestampVars, delayCall, lifecycleVars, storeFailures,
                   rowCall>>
    /\ PipelineFrame

\* the taker-filter getContractEvents of the chunk settles; either way the
\* cursor moves on
TakerSettles(ok) ==
    /\ bfPc = "taker"
    /\ bfQueries' = Append(bfQueries, Query("taker", ok))
    /\ Advance(bfTask)
    /\ UNCHANGED bfHead
    /\ UNCHANGED <<timestampVars, delayCall, lifecycleVars, storeFailures,
                   rowCall>>
    /\ PipelineFrame

NextBackfill ==
    \/ BackfillMissedBlocks
    \/ \E ok \in BOOLEAN : GetBlockNumberSettles(ok)
    \/ \E ok \in BOOLEAN : MakerSettles(ok)
    \/ \E ok \in BOOLEAN : TakerSettles(ok)

\* every RPC call is inside withRetry, which ends (C30)
FairSpecBackfill ==
    InitBackfill /\ [][NextBackfill]_vars /\ WF_vars(NextBackfill)

\* the chunks queried for a contract: its maker-filter queries, in order
ChunksOf(exchange) ==
    SelectSeq(bfQueries,
              LAMBDA q : q.exchange = exchange /\ q.filter = "maker")

\* backfillExchange has returned for the i-th contract
ExchangeDone(i) ==
    bfTask.from > 0 /\ (bfTask.ex > i \/ bfPc = "returned")

\* the chunks of each contract are disjoint, contiguous from fromBlock, at
\* most MAX_BLOCK_RANGE long, inside [fromBlock, toBlock] and, once the
\* loop has ended, reach toBlock
ChunksPartition ==
    \A i \in 1..Len(Exchanges) :
        LET qs == ChunksOf(Exchanges[i])
        IN  /\ Len(qs) > 0 => qs[1].fromBlock = bfTask.from
            /\ \A k \in 1..Len(qs) :
                   /\ qs[k].fromBlock <= qs[k].toBlock
                   /\ qs[k].toBlock <= bfTask.to
                   /\ qs[k].toBlock - qs[k].fromBlock + 1 <= MAX_BLOCK_RANGE
            /\ \A k \in 1..(Len(qs) - 1) :
                   qs[k + 1].fromBlock = qs[k].toBlock + 1
            /\ ExchangeDone(i) =>
                   (Len(qs) > 0 /\ qs[Len(qs)].toBlock = bfTask.to)
            /\ (Len(qs) > 0 /\ i > 1) => ExchangeDone(i - 1)

SameChunk(q, r) ==
    /\ q.exchange = r.exchange
    /\ q.fromBlock = r.fromBlock
    /\ q.toBlock = r.toBlock

\* no query at all without an on-chain row or with the last recorded block
\* at or above the head, and none for blocks outside the missed range
NoQueryWithoutGap ==
    /\ (getLatestBlockNumber(store) = 0 \/ getLatestBlockNumber(store) >= bfHead)
           => bfQueries = <<>>
    /\ bfQueries # <<>> =>
           (bfTask.from = getLatestBlockNumber(store) + 1 /\ bfTask.to = bfHead)

\* every taker-filter query follows the fulfilled maker-filter query of the
\* same chunk
TakerAfterMaker ==
    \A k \in 1..Len(bfQueries) :
        bfQueries[k].filter = "taker" =>
            /\ k > 1
            /\ bfQueries[k - 1].filter = "maker"
            /\ bfQueries[k - 1].ok
            /\ SameChunk(bfQueries[k - 1], bfQueries[k])

\* the original sentence: every chunk the loop has passed was queried once
\* with the maker filter and once with the taker filter
C32_BothQueriesPerChunk ==
    /\ ChunksPartition
    /\ NoQueryWithoutGap
    /\ TakerAfterMaker
    /\ \A k \in 1..Len(bfQueries) :
           (bfQueries[k].filter = "maker" /\ (k < Len(bfQueries) \/ bfPc # "taker"))
               => /\ k < Len(bfQueries)
                  /\ bfQueries[k + 1].filter = "taker"
                  /\ SameChunk(bfQueries[k], bfQueries[k + 1])

\* C32: for fromBlock <= toBlock backfillExchange queries chunks that are
\* pairwise disjoint, contiguous, at most MAX_BLOCK_RANGE blocks long and
\* cover exactly [fromBlock, toBlock]; each chunk gets one maker-filter
\* query and, when that one was fulfilled, one taker-filter query; the
\* cursor passes a chunk whose query failed; the call ends; and without an
\* on-chain row, or with the last recorded block at or above the head, no
\* query is issued.
C32_BackfillChunks ==
    /\ [](ChunksPartition /\ NoQueryWithoutGap /\ TakerAfterMaker)
    /\ [](\A k \in 1..Len(bfQueries) :
              (bfQueries[k].filter = "maker" /\
               (k < Len(bfQueries) \/ bfPc # "taker"))
                  => (bfQueries[k].ok <=>
                         (/\ k < Len(bfQueries)
                          /\ bfQueries[k + 1].filter = "taker"
                          /\ SameChunk(bfQueries[k], bfQueries[k + 1]))))
    /\ <>(bfPc \in {"returned", "raised"})

\* a backfill of more than one chunk per contract has returned although a
\* maker-filter query and a taker-filter query failed on the way
C32_Witness ==
    /\ bfPc = "returned"
    /\ bfTask.to - bfTask.from + 1 > MAX_BLOCK_RANGE
    /\ \E k \in 1..Len(bfQueries) :
           bfQueries[k].filter = "maker" /\ ~bfQueries[k].ok
    /\ \E k \in 1..Len(bfQueries) :
           bfQueries[k].filter = "taker" /\ ~bfQueries[k].ok

-----------------------------------------------------------------------------
(* OnChainWatcher.processLog and enrichTimestamp on their own: logs come    *)
(* in from a subscription or a backfill, block lookups settle later.        *)

\* detections built in one run of the model
MaxProcessed == 2

Expert == "0xe"

\* Date.now() at detection, in milliseconds
DetectionTimes == {1999, 2000}

\* the OrderFilled logs handed to processLog: the participant as maker, as
\* taker, or not involved (address in either case); a pending log has no
\* transaction hash, log index or block number ("" / -1 / 0: null)
Logs ==
    [maker : {"0xE", "0xf"}, taker : {"0xe", "0xf"},
     transactionHash : {"0xa", ""}, logIndex : {0, -1},
     blockNumber : {0, 1, 2}]

toLowerCase(address) == IF address = "0xE" THEN "0xe" ELSE address

\* processLog: whether the log gets a detection
Involved(rawLog) ==
    toLowerCase(rawLog.maker) = Expert \/ toLowerCase(rawLog.taker) = Expert

Complete(rawLog) == rawLog.transactionHash # "" /\ rawLog.logIndex # -1

\* processLog: the detection it builds, before enrichment
Detection(rawLog, now) ==
    [id |-> buildEventId(rawLog.transactionHash, rawLog.logIndex),
     txHash |-> rawLog.transactionHash, logIndex |-> rawLog.logIndex,
     blockNumber |-> rawLog.blockNumber, blockTimestamp |-> 0,
     detectedAt |-> now, source |-> "on-chain",
     expertSide |-> IF toLowerCase(rawLog.maker) = Expert THEN "maker"
                    ELSE "taker"]

\* block.timestamp of block b, in seconds
BlockTime(b) == ChainFill(b).timestamp

enrichTimestamp_millis(event, block) ==
    IF block = "ok"
    THEN [event EXCEPT !.blockTimestamp = BlockTime(event.blockNumber)]
    ELSE [event EXCEPT !.blockTimestamp = event.detectedAt]

\* enrichTimestamp: what it resolves with when getBlock answered ("ok"),
\* raised ("failed") or was not called ("none")
enrichTimestamp(event, block) ==
    IF block = "ok"
    THEN [event EXCEPT !.blockTimestamp = BlockTime(event.blockNumber)]
    ELSE [event EXCEPT !.blockTimestamp = event.detectedAt \div 1000]

\* enrichTimestamp: whether it calls getBlock
Lookup(clients, event) == clients /\ event.blockNumber > 0

InitEnrich ==
    /\ InitCore
    /\ InitCacheAside
    /\ InitFnAside
    /\ InitRetryAside
    /\ InitBackfillAside
    /\ delayCall = NoDelayCall
    /\ InitLifecycleAside
    /\ storeFailures = {}
    /\ rowCall = NoRowCall
    /\ enClients = TRUE
    /\ enCalls = <<>>
    /\ enPublished = <<>>
    /\ enSkipped = 0

\* processLog(rawLog): a log of others, or one without hash or index,
\* returns; otherwise the detection enters enrichTimestamp, which awaits
\* getBlock or, with nothing to look up, resolves at once so that the
\* .then callback emits before any other task runs
ProcessLog(rawLog, now) ==
    /\ Len(enCalls) < MaxProcessed
    /\ IF ~Involved(rawLog) \/ ~Complete(rawLog)
       THEN /\ enSkipped < 1
            /\ enSkipped' = enSkipped + 1
            /\ UNCHANGED <<enCalls, enPublished>>
       ELSE LET event == Detection(rawLog, now)
                call == Len(enCalls) + 1
            IN  /\ UNCHANGED enSkipped
                /\ IF Lookup(enClients, event)
                   THEN /\ enCalls' = Append(enCalls,
                                [event |-> event, block |-> "pending"])
                        /\ UNCHANGED enPublished
                   ELSE /\ enCalls' = Append(enCalls,
                                [event |-> event, block |-> "none"])
                        /\ enPublished' = Append(enPublished,
                                [call |-> call,
                                 event |-> enrichTimestamp(event, "none")])
    /\ UNCHANGED <<enClients, backfillVars, delayCall,
                   lifecycleVars, storeFailures,
                   rowCall>>
    /\ PipelineFrame

\* getBlock of the call-th detection settles and the .then callback emits
GetBlockSettles(call, ok) ==
    /\ call \in 1..Len(enCalls)
    /\ enCalls[call].block = "pending"
    /\ LET block == IF ok THEN "ok" ELSE "failed"
       IN  /\ enCalls' = [enCalls EXCEPT ![call].block = block]
           /\ enPublished' = Append(enPublished,
                   [call |-> call,
                    event |-> enrichTimestamp(enCalls[call].event, block)])
    /\ UNCHANGED <<enClients, enSkipped, backfillVars, delayCall,
                   lifecycleVars, storeFailures,
                   rowCall>>
    /\ PipelineFrame

\* stop() drops both clients; a log that still arrives finds none
DropClients ==
    /\ enClients
    /\ enClients' = FALSE
    /\ UNCHANGED <<enCalls, enPublished, enSkipped, backfillVars, delayCall,
                   lifecycleVars, storeFailures,
                   rowCall>>
    /\ PipelineFrame

NextEnrich ==
    \/ \E rawLog \in Logs, now \in DetectionTimes : ProcessLog(rawLog, now)
    \/ \E call \in 1..MaxProcessed, ok \in BOOLEAN : GetBlockSettles(call, ok)
    \/ DropClients

SpecEnrich == InitEnrich /\ [][NextEnrich]_vars

\* the emitTrade calls made for the call-th detection
PublishedFor(call) ==
    {k \in 1..Len(enPublished) : enPublished[k].call = call}

\* C33: the on-chain watcher publishes a detection only after its block
\* lookup has completed: nothing is emitted for a detection whose getBlock
\* is pending, every detection whose enrichment has completed was emitted
\* exactly once, carrying the block's timestamp when the lookup answered
\* and the detection time in whole seconds when it failed or could not be
\* made, with its other fields as processLog built them; a log that gets no
\* detection emits nothing.
C33_PublishedAfterEnrichment ==
    /\ [](\A call \in 1..Len(enCalls) :
            LET c == enCalls[call]
            IN  /\ c.block = "pending" => PublishedFor(call) = {}
                /\ c.block # "pending" =>
                      /\ Cardinality(PublishedFor(call)) = 1
                      /\ \A k \in PublishedFor(call) :
                            /\ enPublished[k].event.blockTimestamp =
                                  IF c.block = "ok"
                                  THEN BlockTime(c.event.blockNumber)
                                  ELSE c.event.detectedAt \div 1000
                            /\ [enPublished[k].event
                                   EXCEPT !.blockTimestamp = 0] = c.event
                /\ c.block \in {"ok", "failed"} => c.event.blockNumber > 0)
    /\ [](\A k \in 1..Len(enPublished) :
            enPublished[k].call \in 1..Len(enCalls))
    /\ [][enSkipped' # enSkipped =>
             (enPublished' = enPublished /\ enCalls' = enCalls)]_vars

\* one detection was emitted with the detection time after its lookup
\* failed while the lookup of another is still pending
C33_Witness ==
    /\ Len(enCalls) = 2
    /\ \E call \in 1..2 :
          /\ enCalls[call].block = "failed"
          /\ PublishedFor(call) # {}
    /\ \E call \in 1..2 : enCalls[call].block = "pending"

-----------------------------------------------------------------------------
(* The Market Cache under all four of its operations.                       *)

\* MarketCache.has: get(tokenId) !== null, with what get does to the Map
CacheHas(tokenId) ==
    /\ \E r \in {get(mcCache, mcNow, tokenId)} :
          /\ mcCache' = r.cache
          /\ mcLast' = [op |-> "has", key |-> tokenId, value |-> "",
                        tokens |-> <<>>, at |-> mcNow,
                        result |-> IF r.data # "null" THEN "true" ELSE "false"]
          /\ mcRecency' = Held(IF r.data = "null" THEN mcRecency
                               ELSE Touch(mcRecency, tokenId), r.cache)
    /\ UNCHANGED <<mcMaxSize, mcTtl, mcNow>>
    /\ UNCHANGED <<dedupVars, watchVars, stopVars, noticeVars, pollVars,
                   hashVars, lateVars>>

\* MarketCache.clear
CacheClear ==
    /\ mcCache' = <<>>
    /\ mcLast' = [op |-> "clear", key |-> "", value |-> "", tokens |-> <<>>,
                  at |-> mcNow, result |-> ""]
    /\ mcRecency' = <<>>
    /\ UNCHANGED <<mcMaxSize, mcTtl, mcNow>>
    /\ UNCHANGED <<dedupVars, watchVars, stopVars, noticeVars, pollVars,
                   hashVars, lateVars>>

NextCacheOps ==
    \/ \E tokenId \in Tokens, metadata \in MarketNames :
          CacheSet(tokenId, metadata)
    \/ \E tokenId \in Tokens : CacheGet(tokenId)
    \/ \E tokenId \in Tokens : CacheHas(tokenId)
    \/ CacheClear
    \/ CacheTick

SpecCacheOps == InitCache /\ [][NextCacheOps]_vars

\* MarketCache.size
size(cache) == Len(cache)

\* C34: after any sequence of set, get, has and clear the size of the Market
\* Cache is at most the configured capacity, also after a set that fans out
\* to more outcome-token identifiers than the capacity.
C34_SizeWithinCapacity == size(mcCache) <= mcMaxSize

\* what holds instead: a cache of capacity 0 holds one entry after its first
\* set, and every cache holds at most max(capacity, 1) entries
SizeWithinPositiveCapacity ==
    /\ mcMaxSize >= 1 => size(mcCache) <= mcMaxSize
    /\ size(mcCache) <= MathMax(mcMaxSize, 1)

-----------------------------------------------------------------------------
(* calculateDelay on its own, for the options its callers pass.             *)

\* the largest attempt number handed to calculateDelay
MaxRetry == 6

\* baseDelayMs / maxDelayMs / jitter (in percent) of the callers and of
\* DEFAULT_OPTIONS, and the ends of the jitter range
DelayOptions ==
    [baseDelayMs : {baseDelayMs, 2000},
     maxDelayMs : {10000, 15000, maxDelayMs},
     jitter : {0, jitterPercent, 100}]

\* calculateDelay(attempt, opts) for a value of Math.random() in hundredths
calculateDelayWith(attempt, opts, random) ==
    LET exponential == opts.baseDelayMs * Pow2(attempt - 1)
        capped == Min(exponential, opts.maxDelayMs)
    IN  (capped * 10000 + capped * opts.jitter * random) \div 10000

InitDelay ==
    /\ InitCore
    /\ InitCacheAside
    /\ InitFnAside
    /\ InitRetryAside
    /\ InitBackfillAside
    /\ InitTimestampAside
    /\ InitLifecycleAside
    /\ storeFailures = {}
    /\ rowCall = NoRowCall
    /\ delayCall \in [attempt : 1..MaxRetry, opts : DelayOptions,
                      random : Randoms, returned : {FALSE}, delay : {0}]

CalculateDelay ==
    /\ ~delayCall.returned
    /\ delayCall' =
          [delayCall EXCEPT
              !.returned = TRUE,
              !.delay = calculateDelayWith(delayCall.attempt, delayCall.opts,
                                           delayCall.random)]
    /\ UNCHANGED <<backfillVars, timestampVars, lifecycleVars, storeFailures,
                   rowCall>>
    /\ PipelineFrame

NextDelay == CalculateDelay

SpecDelay == InitDelay /\ [][NextDelay]_vars

\* C35: the delay calculateDelay returns for attempt n is at least
\* min(baseDelayMs * 2^(n-1), maxDelayMs) and at most maxDelayMs, for every
\* attempt number, base delay, jitter factor and random draw.
C35_DelayCapped ==
    delayCall.returned =>
        /\ delayCall.delay >=
               Min(delayCall.opts.baseDelayMs * Pow2(delayCall.attempt - 1),
                   delayCall.opts.maxDelayMs)
        /\ delayCall.delay <= delayCall.opts.maxDelayMs

\* what holds instead: the jitter is added after the cap, so the delay lies
\* between the capped value and the capped value times (1 + jitter)
DelayWithinJitter ==
    delayCall.returned =>
        LET capped ==
                Min(delayCall.opts.baseDelayMs * Pow2(delayCall.attempt - 1),
                    delayCall.opts.maxDelayMs)
        IN  /\ delayCall.delay >= capped
            /\ delayCall.delay * 100 <= capped * (100 + delayCall.opts.jitter)

-----------------------------------------------------------------------------
(* A ClobWatcher whose start() and stop() are called by other tasks while   *)
(* its polls and timers are under way.                                      *)

\* timers and poll() calls created in one run of the model
MaxTimers == 4

\* the pages the Data API answers with here: no row, or one row
LifecyclePages ==
    {<<>>} \cup
    {<<[RowOf(ChainFill(1)) EXCEPT !.timestamp = ts]>> : ts \in 1..MaxTimestamp}

InitLifecycle ==
    /\ InitCore
    /\ InitCacheAside
    /\ InitFnAside
    /\ InitRetryAside
    /\ InitBackfillAside
    /\ InitTimestampAside
    /\ delayCall = NoDelayCall
    /\ InitLifecycleAside
    /\ storeFailures = {}
    /\ rowCall = NoRowCall

LifecycleFrame ==
    /\ UNCHANGED <<backfillVars, timestampVars, delayCall, storeFailures,
                   rowCall>>
    /\ PipelineFrame

\* ClobWatcher.start() up to the fetch inside its initial poll(); a running
\* watcher returns at once
LcStart ==
    /\ lcState # "running"
    /\ lcIds < MaxTimers
    /\ lcState' = setState(lcState, "starting").state
    /\ lcShuttingDown' = FALSE
    /\ lcIds' = lcIds + 1
    /\ lcPolls' = lcPolls \cup {[id |-> lcIds + 1, caller |-> "start"]}
    /\ lcStopped' = FALSE
    /\ UNCHANGED <<lcPollTimer, lcTimers, lcLastSeen, lcPublished, lcErrorCount>>
    /\ LifecycleFrame

\* ClobWatcher.stop(): clearTimeout on the handle held, setState('stopped')
LcStop ==
    /\ lcShuttingDown' = TRUE
    /\ lcTimers' = lcTimers \ {lcPollTimer}
    /\ lcPollTimer' = 0
    /\ lcState' = setState(lcState, "stopped").state
    /\ lcStopped' = TRUE
    /\ UNCHANGED <<lcPolls, lcIds, lcLastSeen, lcPublished, lcErrorCount>>
    /\ LifecycleFrame

\* schedulePoll(): a new timer, unless isShuttingDown
LcSchedulePoll ==
    IF schedulePoll(lcShuttingDown)
    THEN /\ lcIds < MaxTimers
         /\ lcIds' = lcIds + 1
         /\ lcPollTimer' = lcIds + 1
         /\ lcTimers' = lcTimers \cup {lcIds + 1}
    ELSE UNCHANGED <<lcIds, lcPollTimer, lcTimers>>

\* a timer fires: its callback calls poll(), which awaits the fetch
LcTimerFires(t) ==
    /\ t \in lcTimers
    /\ lcTimers' = lcTimers \ {t}
    /\ lcPolls' = lcPolls \cup {[id |-> t, caller |-> "timer"]}
    /\ UNCHANGED <<lcState, lcShuttingDown, lcPollTimer, lcIds, lcLastSeen,
                   lcPublished, lcErrorCount, lcStopped>>
    /\ LifecycleFrame

\* the fetch of a poll() answers: the new rows are emitted and the mark
\* moves; then start() sets 'running' and schedules, and the timer callback
\* sets 'running' when the state is another and schedules
LcPollOk(p, trades) ==
    /\ p \in lcPolls
    /\ lcPolls' = lcPolls \ {p}
    /\ \E r \in {poll(lcLastSeen, trades)} :
          /\ lcPublished' = Min(lcPublished + Len(r.emitted), MaxCount)
          /\ lcLastSeen' = r.lastSeenTimestamp
    /\ lcState' = setState(lcState, "running").state
    /\ LcSchedulePoll
    /\ UNCHANGED <<lcShuttingDown, lcErrorCount, lcStopped>>
    /\ LifecycleFrame

\* the fetch of a poll() fails after its retries: start() sets 'failed',
\* reports and rejects; the timer callback reports and schedules
LcPollFail(p) ==
    /\ p \in lcPolls
    /\ lcPolls' = lcPolls \ {p}
    /\ lcErrorCount' = Min(lcErrorCount + 1, MaxCount)
    /\ IF p.caller = "start"
       THEN /\ lcState' = setState(lcState, "failed").state
            /\ UNCHANGED <<lcIds, lcPollTimer, lcTimers>>
       ELSE /\ LcSchedulePoll
            /\ UNCHANGED lcState
    /\ UNCHANGED <<lcShuttingDown, lcLastSeen, lcPublished, lcStopped>>
    /\ LifecycleFrame

Callers == {"start", "timer"}

NextLifecycle ==
    \/ LcStart
    \/ LcStop
    \/ \E t \in 1..MaxTimers : LcTimerFires(t)
    \/ \E id \in 1..MaxTimers, caller \in Callers, trades \in LifecyclePages :
          LcPollOk([id |-> id, caller |-> caller], trades)
    \/ \E id \in 1..MaxTimers, caller \in Callers :
          LcPollFail([id |-> id, caller |-> caller])

SpecLifecycle == InitLifecycle /\ [][NextLifecycle]_vars

\* C36: once stop() has returned, the watcher publishes no trade
\* notification until start() is called again, whatever was in flight when
\* stop() was called.
C36_SilentAfterStop ==
    [][(lcStopped /\ lcStopped') => lcPublished' = lcPublished]_vars

\* C37: after stop() has returned the state stays 'stopped' until start()
\* is called again; a poll cycle in flight at the stop cannot make it
\* 'running'.
C37_StaysStopped == lcStopped => lcState = "stopped"

\* C38: at most one poll loop is active: there is never more than one
\* pending timer or in-flight cycle started by a timer.
C38_OnePollLoop ==
    Cardinality(lcTimers) +
        Cardinality({p \in lcPolls : p.caller = "timer"}) <= 1

-----------------------------------------------------------------------------
(* The pipeline when the store fails under an insert.                       *)

\* handleTradeEvent(event) with insertStmt.run raising: the error leaves
\* process and handleTradeEvent, which has no catch, before the counter
\* and the emit
DetectStoreFails(event) ==
    /\ ~LRU_has(lru, event.id)
    /\ event.id \notin storeFailures
    /\ \E r \in {process_insertRaises(lru, lruSize, store, hits, misses,
                                      event)} :
          /\ lru' = r.lru
          /\ store' = r.store
          /\ hits' = r.hits
          /\ misses' = r.misses
    /\ storeFailures' = storeFailures \cup {event.id}
    /\ UNCHANGED <<lruSize, totalEventsEmitted, unified, callVars>>
    /\ UNCHANGED <<backfillVars, timestampVars, delayCall, lifecycleVars,
                   rowCall>>
    /\ UNCHANGED <<watchVars, stopVars, noticeVars, pollVars, hashVars,
                   cacheVars, resolverVars, normVars, fnVars, tableVars,
                   retryVars>>

\* the Deduplicator of SpecDedup behind handleTradeEvent, over a store
\* whose insert may raise
NextStoreFailure ==
    \/ NextDedup
    \/ \E event \in Detections : DetectStoreFails(event)

SpecStoreFailure == InitDedup /\ [][NextStoreFailure]_vars

\* the ids on which a process call raised in this step
JustFailed == storeFailures' \ storeFailures

\* C39: when the durable insert raises inside Deduplicator.process(e), the
\* event is not admitted, the LRU, the hit and miss counters and the store
\* are as before, nothing is emitted on the unified stream, and the id is
\* not in the LRU, so the next process of it goes to the durable layer.
C39_StoreFailureLeavesNoTrace ==
    [][JustFailed # {} =>
          /\ lru' = lru
          /\ hits' = hits
          /\ misses' = misses
          /\ store' = store
          /\ admittedNow' = admittedNow
          /\ unified' = unified
          /\ totalEventsEmitted' = totalEventsEmitted
          /\ fillsPublished' = fillsPublished
          /\ \A id \in JustFailed : ~LRU_has(lru', id)]_vars

\* a process call raised in the insert of a detection, and the next call on
\* the same identity missed the LRU, found no row and admitted it
C39_Witness ==
    /\ lastCall.made
    /\ lastCall.id \in storeFailures
    /\ ~lastCall.lruHit
    /\ ~lastCall.wasStored
    /\ lastCall.isNew
    /\ lastCall.emitted

-----------------------------------------------------------------------------
(* A trade-history row through ClobWatcher.mapToRawEvent and decodeTrade.   *)

\* the rows tried: those of HashRows with a transaction hash, bought or
\* sold, with and without an asset identifier
DecodeRows ==
    [base : {r \in HashRows :
                r.transactionHash = "0xa1" /\ r.timestamp = 1700000017},
     side : {"BUY", "SELL"}, asset : {"A", "C", ""},
     returned : {FALSE}, decoded : {NoDecoded}]

\* the characters of a condition id as one string
RECURSIVE Text(_)
Text(chars) == IF chars = <<>> THEN "" ELSE Head(chars) \o Text(Tail(chars))

\* ClobWatcher.mapToRawEvent: the fields decodeTrade reads, next to the
\* identity fields of mapToRawEvent
mapToRawEventAssets(trade, asset) ==
    [id |-> mapToRawEvent(trade).id,
     source |-> "clob-api",
     makerAssetId |-> "0",
     takerAssetId |-> IF asset # "" THEN asset ELSE Text(trade.conditionId),
     makerAmountFilled |-> 0,
     takerAmountFilled |-> ScaledMicro(trade.size),
     expertSide |-> "taker"]

InitDecodeRow ==
    /\ InitCore
    /\ InitCacheAside
    /\ InitFnAside
    /\ InitRetryAside
    /\ InitBackfillAside
    /\ InitTimestampAside
    /\ delayCall = NoDelayCall
    /\ InitLifecycleAside
    /\ storeFailures = {}
    /\ rowCall \in DecodeRows

\* poll() maps the row and emits the detection; the Signal Normalizer hands
\* it to decodeTrade
DecodeRow ==
    /\ ~rowCall.returned
    /\ rowCall' =
          [rowCall EXCEPT
              !.returned = TRUE,
              !.decoded = decodeTrade(mapToRawEventAssets(rowCall.base,
                                                          rowCall.asset))]
    /\ UNCHANGED <<backfillVars, timestampVars, delayCall, lifecycleVars,
                   storeFailures>>
    /\ PipelineFrame

NextDecodeRow == DecodeRow

SpecDecodeRow == InitDecodeRow /\ [][NextDecodeRow]_vars

\* C40: the detection the poll watcher builds from a trade-history row
\* decodes to the side the row reports, BUY for BUY and SELL for SELL, with
\* the row's asset as the outcome-token identifier.
C40_RowSideDecoded ==
    rowCall.returned =>
        /\ rowCall.decoded.side = rowCall.side
        /\ rowCall.asset # "" => rowCall.decoded.outcomeTokenId = rowCall.asset

\* what holds instead: every row decodes to SELL, with its asset (or its
\* condition id) as the outcome-token identifier and no collateral amount
RowDecodedAsSell ==
    rowCall.returned =>
        /\ rowCall.decoded.side = "SELL"
        /\ rowCall.decoded.outcomeTokenId =
              IF rowCall.asset # "" THEN rowCall.asset
              ELSE Text(rowCall.base.conditionId)
        /\ rowCall.decoded.price = 0

=============================================================================
